---- MODULE Spec2Model ----
(***************************************************************************)
(* A model of the multi-agent research pipeline of                         *)
(* src/2_openai/muthama/{local,llm_local}: the handler registry and the    *)
(* Runner, the JSON-from-text extractor, the Planner / Search / Writer /   *)
(* Email handlers of both runtimes and the Manager that sequences them.    *)
(*                                                                         *)
(* Python values are records tagged by their type in the field t, with the *)
(* payload in v (str: the sequence of its characters, each a one-character *)
(* string; int: the integer; float: the value in thousandths; list: the    *)
(* sequence of its elements; dict: the sequence of its [k, val] pairs in   *)
(* insertion order).  Dataclass instances are records tagged by the class  *)
(* name with one field per attribute.  The outcome of a call is a record   *)
(* [raised, exc, val]: the exception it raised, or the value it returned.  *)
(***************************************************************************)
EXTENDS Integers, Sequences, FiniteSets, TLC

VARIABLES
    arg,               \* the argument of the function under call (pure-function specs)
    ret,               \* its outcome, once it has returned
    phase,             \* "ready" before the call, "returned" after it
    agent,             \* the name of the agent Runner.run is called on (handler calls)
    reply,             \* the outcome of the llm_call the handler makes, if it makes one
    runtime,           \* "local" or "llm_local": the package the process imported
    registry,          \* _AGENT_HANDLERS: agent name -> handler
    registrations,     \* the number of register_agent_handler calls since start-up
    pc,                \* where _manager_handler stands
    m_query,           \* its local query, the str payload of the run
    m_searches,        \* its local searches
    m_search_results,  \* its local search_results
    m_report,          \* its local report
    m_result,          \* the outcome of the run, once it has ended
    log,               \* the handler invocations and Runner.run outcomes in order
    llm_failures,      \* <<number of llm_call that raised, number of llm_call made>>
    clock,             \* the time of the event loop, in ticks (concurrent calls)
    tasks,             \* the tasks of the event loop: task number -> its state
    main_pc,           \* where main of host_wrapper.py stands
    server_proc,       \* its local server_proc: "None" or "Popen"
    server             \* the server subprocess: "absent", "running" or "exited"

callVars == <<arg, ret, phase, agent, reply>>
runVars == <<runtime, registry, registrations, pc, m_query, m_searches, m_search_results,
             m_report, m_result, log, llm_failures>>
loopVars == <<clock, tasks>>
hostVars == <<main_pc, server_proc, server>>
vars == <<arg, ret, phase, agent, reply, runtime, registry, registrations, pc, m_query, m_searches,
          m_search_results, m_report, m_result, log, llm_failures, clock, tasks,
          main_pc, server_proc, server>>

(***************************************************************************)
(* Python values and call outcomes                                         *)
(***************************************************************************)
None == [t |-> "None", v |-> <<>>]
PyStr(s) == [t |-> "str", v |-> s]
PyInt(n) == [t |-> "int", v |-> n]
PyFloat(thousandths) == [t |-> "float", v |-> thousandths]
PyBool(b) == [t |-> "bool", v |-> b]
PyList(xs) == [t |-> "list", v |-> xs]
PyDict(pairs) == [t |-> "dict", v |-> pairs]

Return(x) == [raised |-> FALSE, exc |-> "", val |-> x]
Raise(e) == [raised |-> TRUE, exc |-> e, val |-> None]

\* dict.__contains__, dict.get(k, default) and dict[k] = x on a dict's pairs
HasKey(pairs, k) == \E i \in 1..Len(pairs) : pairs[i].k = k

DictGet(pairs, k, default) ==
    IF HasKey(pairs, k)
    THEN pairs[CHOOSE i \in 1..Len(pairs) : pairs[i].k = k].val
    ELSE default

DictSet(pairs, k, x) ==
    IF HasKey(pairs, k)
    THEN [i \in 1..Len(pairs) |-> IF pairs[i].k = k THEN [k |-> k, val |-> x] ELSE pairs[i]]
    ELSE Append(pairs, [k |-> k, val |-> x])

(***************************************************************************)
(* json.loads, as the extractor uses it.  Exact on texts over JsonChars:   *)
(* objects, arrays, strings without escapes, non-negative integers and the *)
(* literals null / true / false, with the decoder's whitespace handling.   *)
(***************************************************************************)
JsonWhitespace == {" ", "\t", "\n", "\r"}
Digits == {"0", "1", "2", "3", "4", "5", "6", "7", "8", "9"}
LowerCase == <<"a", "b", "c", "d", "e", "f", "g", "h", "i", "j", "k", "l", "m",
               "n", "o", "p", "q", "r", "s", "t", "u", "v", "w", "x", "y", "z">>
UpperCase == <<"A", "B", "C", "D", "E", "F", "G", "H", "I", "J", "K", "L", "M",
               "N", "O", "P", "Q", "R", "S", "T", "U", "V", "W", "X", "Y", "Z">>
Letters == {LowerCase[i] : i \in 1..26} \cup {UpperCase[i] : i \in 1..26}
JsonChars == Letters \cup Digits \cup JsonWhitespace
                 \cup {"{", "}", "[", "]", "\"", "'", ":", ",", "_", "?", ";", "/"}

DigitVal(c) ==
    CASE c = "0" -> 0 [] c = "1" -> 1 [] c = "2" -> 2 [] c = "3" -> 3 [] c = "4" -> 4
      [] c = "5" -> 5 [] c = "6" -> 6 [] c = "7" -> 7 [] c = "8" -> 8 [] c = "9" -> 9

PFail == [ok |-> FALSE, val |-> None, pos |-> 0]
POk(x, p) == [ok |-> TRUE, val |-> x, pos |-> p]

\* WHITESPACE.match(s, i).end(): the first index at or after i that holds no whitespace
SkipWs(s, i) ==
    CHOOSE j \in i..(Len(s) + 1) :
        /\ \A k \in i..(j - 1) : s[k] \in JsonWhitespace
        /\ (j = Len(s) + 1 \/ s[j] \notin JsonWhitespace)

\* s[i:i+len(lit)] == lit
StartsWithAt(s, i, lit) ==
    /\ i + Len(lit) - 1 <= Len(s)
    /\ \A k \in 1..Len(lit) : s[i + k - 1] = lit[k]

\* py_scanstring (strict): s[i] is the opening quote
ParseString(s, i) ==
    LET closing == {j \in (i + 1)..Len(s) : s[j] = "\""} IN
    IF closing = {} THEN PFail
    ELSE LET j == CHOOSE c \in closing : \A d \in closing : c <= d IN
         IF \E k \in (i + 1)..(j - 1) : s[k] \in {"\t", "\n", "\r"}
         THEN PFail
         ELSE POk(PyStr(SubSeq(s, i + 1, j - 1)), j + 1)

RECURSIVE DecimalValue(_)
DecimalValue(ds) ==
    IF ds = <<>> THEN 0
    ELSE 10 * DecimalValue(SubSeq(ds, 1, Len(ds) - 1)) + DigitVal(ds[Len(ds)])

\* NUMBER_RE (0|[1-9]\d*) at i: s[i] is a digit
ParseNumber(s, i) ==
    IF s[i] = "0" THEN POk(PyInt(0), i + 1)
    ELSE LET j == CHOOSE e \in i..Len(s) :
                      /\ \A k \in i..e : s[k] \in Digits
                      /\ (e = Len(s) \/ s[e + 1] \notin Digits)
         IN POk(PyInt(DecimalValue(SubSeq(s, i, j))), j + 1)

RECURSIVE ParseValue(_, _), ParseElems(_, _, _), ParseMembers(_, _, _)

\* JSONArray: s[i] = "["
ParseArray(s, i) ==
    LET j == SkipWs(s, i + 1) IN
    IF j <= Len(s) /\ s[j] = "]" THEN POk(PyList(<<>>), j + 1)
    ELSE ParseElems(s, j, <<>>)

\* JSONObject: s[i] = "{"
ParseObject(s, i) ==
    LET j == SkipWs(s, i + 1) IN
    IF j <= Len(s) /\ s[j] = "}" THEN POk(PyDict(<<>>), j + 1)
    ELSE IF j > Len(s) \/ s[j] # "\"" THEN PFail
    ELSE ParseMembers(s, j, <<>>)

\* scan_once
ParseValue(s, i) ==
    IF i > Len(s) THEN PFail
    ELSE CASE s[i] = "\"" -> ParseString(s, i)
           [] s[i] = "{" -> ParseObject(s, i)
           [] s[i] = "[" -> ParseArray(s, i)
           [] s[i] = "n" /\ StartsWithAt(s, i, <<"n", "u", "l", "l">>) -> POk(None, i + 4)
           [] s[i] = "t" /\ StartsWithAt(s, i, <<"t", "r", "u", "e">>) -> POk(PyBool(TRUE), i + 4)
           [] s[i] = "f" /\ StartsWithAt(s, i, <<"f", "a", "l", "s", "e">>) -> POk(PyBool(FALSE), i + 5)
           [] s[i] \in Digits -> ParseNumber(s, i)
           [] OTHER -> PFail

\* JSONArray after an element: "]" ends the array, "," starts the next element
ElemsNext(s, acc, j) ==
    IF j > Len(s) THEN PFail
    ELSE IF s[j] = "]" THEN POk(PyList(acc), j + 1)
    ELSE IF s[j] = "," THEN ParseElems(s, SkipWs(s, j + 1), acc)
    ELSE PFail

\* JSONArray with the result x of scan_once for an element
ElemsAfter(s, acc, x) ==
    IF ~x.ok THEN PFail ELSE ElemsNext(s, Append(acc, x.val), SkipWs(s, x.pos))

\* the loop of JSONArray, at the start of an element
ParseElems(s, i, acc) == ElemsAfter(s, acc, ParseValue(s, i))

\* JSONObject after ",": the next key must open with a quote
MembersKey(s, acc, n) ==
    IF n > Len(s) \/ s[n] # "\"" THEN PFail ELSE ParseMembers(s, n, acc)

\* JSONObject after a member: "}" ends the object, "," starts the next member
MembersNext(s, acc, e) ==
    IF e > Len(s) THEN PFail
    ELSE IF s[e] = "}" THEN POk(PyDict(acc), e + 1)
    ELSE IF s[e] = "," THEN MembersKey(s, acc, SkipWs(s, e + 1))
    ELSE PFail

\* JSONObject with the result x of scan_once for the value of key k
MemberValue(s, acc, k, x) ==
    IF ~x.ok THEN PFail ELSE MembersNext(s, DictSet(acc, k, x.val), SkipWs(s, x.pos))

\* JSONObject after the key k: ":" and the value
MemberColon(s, acc, k, c) ==
    IF c > Len(s) \/ s[c] # ":" THEN PFail
    ELSE MemberValue(s, acc, k, ParseValue(s, SkipWs(s, c + 1)))

\* JSONObject with the result of scanstring for a key
MemberAfterKey(s, acc, key) ==
    IF ~key.ok THEN PFail ELSE MemberColon(s, acc, key.val.v, SkipWs(s, key.pos))

\* the loop of JSONObject, at the opening quote of a key
ParseMembers(s, i, acc) == MemberAfterKey(s, acc, ParseString(s, i))

\* JSONDecoder.decode with the result x of raw_decode: nothing but whitespace follows
DecodeEnd(s, x) ==
    IF x.ok /\ SkipWs(s, x.pos) = Len(s) + 1
    THEN Return(x.val)
    ELSE Raise("JSONDecodeError")

\* json.loads(s): a value, whitespace around it, and nothing else
json_loads(s) == DecodeEnd(s, ParseValue(s, SkipWs(s, 1)))

(***************************************************************************)
(* _extract_json_from_text                                                 *)
(***************************************************************************)
\* re.search(r'(\{.*\}|\[.*\])', text, flags=re.S) can match at i
MatchAt(text, i) ==
    \/ text[i] = "{" /\ \E j \in (i + 1)..Len(text) : text[j] = "}"
    \/ text[i] = "[" /\ \E j \in (i + 1)..Len(text) : text[j] = "]"

\* m.group(0) if m else text: the leftmost match, greedy to the last closer
Candidate(text) ==
    LET starts == {i \in 1..Len(text) : MatchAt(text, i)} IN
    IF starts = {} THEN text
    ELSE LET i == CHOOSE a \in starts : \A b \in starts : a <= b
             closer == IF text[i] = "{" THEN "}" ELSE "]"
             ends == {j \in (i + 1)..Len(text) : text[j] = closer}
             j == CHOOSE a \in ends : \A b \in ends : a >= b
         IN SubSeq(text, i, j)

\* candidate.replace("'", '"')
QuoteFix(s) == [i \in 1..Len(s) |-> IF s[i] = "'" THEN "\"" ELSE s[i]]

\* the value of the first attempt that parsed, else the original text
ExtractPick(text, strict, relaxed) ==
    IF ~strict.raised THEN strict
    ELSE IF ~relaxed.raised THEN relaxed
    ELSE Return(PyStr(text))

\* a variant of the extractor that falls back to the candidate span, not the text
ExtractFromCandidate(text, candidate) ==
    ExtractPick(candidate, json_loads(candidate), json_loads(QuoteFix(candidate)))

\* json.loads(candidate), then json.loads(candidate.replace("'", '"'))
ExtractFrom(text, candidate) ==
    ExtractPick(text, json_loads(candidate), json_loads(QuoteFix(candidate)))

_extract_json_from_text(text) == ExtractFrom(text, Candidate(text))

(***************************************************************************)
(* Python string operations the handlers use                               *)
(***************************************************************************)
Whitespace == {" ", "\t", "\n", "\r", "\f"}
WordChars == Letters \cup Digits \cup {"_"}

\* str.lower() of one character
Lower(c) ==
    IF \E i \in 1..26 : UpperCase[i] = c
    THEN LowerCase[CHOOSE i \in 1..26 : UpperCase[i] = c]
    ELSE c

\* s.lower()
LowerStr(s) == [i \in 1..Len(s) |-> Lower(s[i])]

\* s.strip(chars)
Strip(s, chars) ==
    LET keep == {i \in 1..Len(s) : s[i] \notin chars} IN
    IF keep = {} THEN <<>>
    ELSE SubSeq(s, CHOOSE a \in keep : \A b \in keep : a <= b,
                   CHOOSE a \in keep : \A b \in keep : a >= b)

\* sub in s
Contains(s, sub) == \E i \in 1..(Len(s) - Len(sub) + 1) : StartsWithAt(s, i, sub)

\* s.count(c) for a single character c
CountChar(s, c) == Cardinality({i \in 1..Len(s) : s[i] = c})

\* s.replace(a, b) for single characters
ReplaceChar(s, a, b) == [i \in 1..Len(s) |-> IF s[i] = a THEN b ELSE s[i]]

\* s.split(): the maximal runs of non-whitespace, in order
RECURSIVE SplitWords(_, _, _)
SplitWords(s, i, cur) ==
    IF i > Len(s) THEN (IF cur = <<>> THEN <<>> ELSE <<cur>>)
    ELSE IF s[i] \in Whitespace
         THEN (IF cur = <<>> THEN <<>> ELSE <<cur>>) \o SplitWords(s, i + 1, <<>>)
         ELSE SplitWords(s, i + 1, Append(cur, s[i]))

Split(s) == SplitWords(s, 1, <<>>)

\* re.sub(r'\s+', ' ', s)
RECURSIVE CollapseFrom(_, _)
CollapseFrom(s, i) ==
    IF i > Len(s) THEN <<>>
    ELSE IF s[i] \in Whitespace
         THEN (IF i > 1 /\ s[i - 1] \in Whitespace THEN <<>> ELSE <<" ">>) \o CollapseFrom(s, i + 1)
         ELSE <<s[i]>> \o CollapseFrom(s, i + 1)

CollapseWhitespace(s) == CollapseFrom(s, 1)

\* alternative alt of a re.I pattern matches s at i (alt is lower case)
MatchesAltAt(s, i, alt) ==
    /\ i + Len(alt) - 1 <= Len(s)
    /\ \A k \in 1..Len(alt) : Lower(s[i + k - 1]) = alt[k]

\* re.split(alt1|alt2|..., s, flags=re.I): scanning from i with the part cur open
RECURSIVE ReSplitFrom(_, _, _, _)
ReSplitFrom(s, alts, i, cur) ==
    IF i > Len(s) THEN <<cur>>
    ELSE LET hits == {a \in 1..Len(alts) : MatchesAltAt(s, i, alts[a])} IN
         IF hits = {} THEN ReSplitFrom(s, alts, i + 1, Append(cur, s[i]))
         ELSE LET a == CHOOSE x \in hits : \A y \in hits : x <= y IN
              <<cur>> \o ReSplitFrom(s, alts, i + Len(alts[a]), <<>>)

ReSplit(s, alts) == ReSplitFrom(s, alts, 1, <<>>)

\* [p.strip() for p in parts if p.strip()]
RECURSIVE StripParts(_)
StripParts(parts) ==
    IF parts = <<>> THEN <<>>
    ELSE LET p == Strip(Head(parts), Whitespace) IN
         (IF p = <<>> THEN <<>> ELSE <<p>>) \o StripParts(Tail(parts))

\* xs[:n]
Take(xs, n) == SubSeq(xs, 1, IF Len(xs) < n THEN Len(xs) ELSE n)

(***************************************************************************)
(* local/planner_agent.py                                                  *)
(***************************************************************************)
MIN_SEARCHES == 1
MAX_SEARCHES == 6
QUESTION_WORDS ==
    { <<"w", "h", "a", "t">>, <<"h", "o", "w">>, <<"w", "h", "y">>, <<"w", "h", "e", "n">>,
      <<"w", "h", "e", "r", "e">>, <<"w", "h", "i", "c", "h">>, <<"w", "h", "o">>,
      <<"w", "h", "o", "m">>, <<"d", "o", "e", "s">>, <<"i", "s">>, <<"a", "r", "e">>,
      <<"c", "a", "n">>, <<"c", "o", "u", "l", "d">>, <<"s", "h", "o", "u", "l", "d">>,
      <<"w", "o", "u", "l", "d">> }

\* len(re.findall(r'\band\b', s))
CountWordAnd(s) ==
    Cardinality({i \in 1..(Len(s) - 2) :
        /\ StartsWithAt(s, i, <<"a", "n", "d">>)
        /\ (i = 1 \/ s[i - 1] \notin WordChars)
        /\ (i + 3 > Len(s) \/ s[i + 3] \notin WordChars)})

determine_search_count(query, min_searches, max_searches) ==
    IF Strip(query, Whitespace) = <<>> THEN min_searches
    ELSE LET q == Strip(query, Whitespace)
             word_count == Len(Split(q))
             punctuation_count == Cardinality({i \in 1..Len(q) : q[i] \in {"?", ",", ";", ":", "-"}})
             has_question_word == \E w \in QUESTION_WORDS : Contains(LowerStr(q), w)
             topic_hint == CountChar(q, ",") + CountChar(q, "/") + CountWordAnd(LowerStr(q))
             base == 1 + (IF word_count >= 8 THEN 1 ELSE 0)
                       + (IF punctuation_count >= 1 THEN 1 ELSE 0)
                       + (IF has_question_word THEN 1 ELSE 0)
                       + (IF topic_hint >= 1 THEN 1 ELSE 0)
             capped == IF max_searches < base THEN max_searches ELSE base
         IN IF min_searches > capped THEN min_searches ELSE capped

\* the dataclasses WebSearchItem and WebSearchPlan
WebSearchItem(query, reason, priority, rank, tags) ==
    [t |-> "WebSearchItem", query |-> query, reason |-> reason, priority |-> priority,
     rank |-> rank, tags |-> tags]

DEFAULT_PRIORITY == PyFloat(500)

WebSearchPlan(searches) == [t |-> "WebSearchPlan", searches |-> searches]

\* the normalised query text and the deduplication key of one candidate
NormQuery(it) == Strip(CollapseWhitespace(Strip(it.query.v, Whitespace)), {" ", ".", ";", ",", ":"})
NormKey(it) == LowerStr(NormQuery(it))

\* a variant of the loop that never consults seen: duplicates survive
RECURSIVE RefineNoDedup(_, _, _, _)
RefineNoDedup(items, i, seen, refined) ==
    IF i > Len(items) THEN refined
    ELSE IF Len(NormQuery(items[i])) < 3
         THEN RefineNoDedup(items, i + 1, seen, refined)
         ELSE RefineNoDedup(items, i + 1, seen,
                  Append(refined, WebSearchItem(PyStr(NormQuery(items[i])), items[i].reason,
                                                items[i].priority, None, None)))

\* the loop of validate_and_refine_searches over items[i..], with seen and refined so far
RECURSIVE RefineFrom(_, _, _, _)
RefineFrom(items, i, seen, refined) ==
    IF i > Len(items) THEN refined
    ELSE LET it == items[i]
             q_norm == NormQuery(it)
             key == NormKey(it)
         IN IF Len(q_norm) < 3 \/ key \in seen
            THEN RefineFrom(items, i + 1, seen, refined)
            ELSE RefineFrom(items, i + 1, seen \cup {key},
                     Append(refined, WebSearchItem(PyStr(q_norm), it.reason, it.priority, None, None)))

\* a variant of the sort that is not stable: it reverses the list
SortReversed(items) == [i \in 1..Len(items) |-> items[Len(items) + 1 - i]]

\* list.sort(key=lambda x: -x.priority): stable, descending priority
RECURSIVE SortByPriority(_)
SortByPriority(items) ==
    IF items = <<>> THEN <<>>
    ELSE LET last == items[Len(items)]
             sorted == SortByPriority(SubSeq(items, 1, Len(items) - 1))
             before == {j \in 0..Len(sorted) : \A k \in 1..j : sorted[k].priority.v >= last.priority.v}
             at == CHOOSE j \in before : \A k \in before : j >= k
         IN SubSeq(sorted, 1, at) \o <<last>> \o SubSeq(sorted, at + 1, Len(sorted))

\* a variant that cuts the list before it sorts it
TruncateThenSort(items, max_items) ==
    SortByPriority(Take(RefineFrom(items, 1, {}, <<>>), max_items))

validate_and_refine_searches(items, max_items) ==
    Take(SortByPriority(RefineFrom(items, 1, {}, <<>>)), max_items)

SplitAlternatives ==
    << <<",">>, <<"a", "b", "o", "u", "t">>, <<"f", "o", "r">>, <<" ", "o", "n", " ">>,
       <<" ", "r", "e", "g", "a", "r", "d", "i", "n", "g", " ">>,
       <<" ", "a", "b", "o", "u", "t", " ">> >>

Overview == <<" ", "o", "v", "e", "r", "v", "i", "e", "w">>
Tutorial == <<" ", "t", "u", "t", "o", "r", "i", "a", "l">>
RecentDevelopments ==
    <<" ", "r", "e", "c", "e", "n", "t", " ", "d", "e", "v", "e", "l", "o", "p", "m", "e", "n", "t", "s">>
ReasonOverview == PyStr(<<"G", "e", "n", "e", "r", "a", "l", " ", "o", "v", "e", "r", "v", "i", "e", "w">>)
ReasonTutorial ==
    PyStr(<<"H", "o", "w", "-", "t", "o", " ", "/", " ", "h", "a", "n", "d", "s", "-", "o", "n">>)
ReasonRecent == PyStr(<<"L", "a", "t", "e", "s", "t", " ", "u", "p", "d", "a", "t", "e", "s">>)
ReasonKeyword == PyStr(<<"K", "e", "y", "w", "o", "r", "d">>)

\* the three candidates of each part, in order
RECURSIVE PartCandidates(_)
PartCandidates(parts) ==
    IF parts = <<>> THEN <<>>
    ELSE LET p == Head(parts) IN
         << WebSearchItem(PyStr(p \o Overview), ReasonOverview, DEFAULT_PRIORITY, None, None),
            WebSearchItem(PyStr(p \o Tutorial), ReasonTutorial, DEFAULT_PRIORITY, None, None),
            WebSearchItem(PyStr(p \o RecentDevelopments), ReasonRecent, DEFAULT_PRIORITY, None, None) >>
         \o PartCandidates(Tail(parts))

MAX_KEYWORDS == 6

\* the candidates _planner_handler builds before it refines them
PlannerCandidates(query) ==
    LET parts == StripParts(ReSplit(query, SplitAlternatives))
        words == Take(Split(query), MAX_KEYWORDS)
    IN IF parts # <<>> THEN PartCandidates(parts)
       ELSE [i \in 1..Len(words) |->
                WebSearchItem(PyStr(words[i]), ReasonKeyword, DEFAULT_PRIORITY, None, None)]

\* for i, c in enumerate(candidates, start=1): c.rank = i
AssignRanks(items) == [i \in 1..Len(items) |-> [items[i] EXCEPT !.rank = PyInt(i)]]

\* local _planner_handler(agent, payload) for a str payload
LocalPlannerHandler(query) ==
    LET n == determine_search_count(query, MIN_SEARCHES, MAX_SEARCHES) IN
    Return(WebSearchPlan(PyList(AssignRanks(validate_and_refine_searches(PlannerCandidates(query), n)))))

\* the keys of the JSON objects and dicts the handlers exchange, and field names
K ==
    [ searches |-> <<"s", "e", "a", "r", "c", "h", "e", "s">>,
      query |-> <<"q", "u", "e", "r", "y">>,
      reason |-> <<"r", "e", "a", "s", "o", "n">>,
      priority |-> <<"p", "r", "i", "o", "r", "i", "t", "y">>,
      rank |-> <<"r", "a", "n", "k">>,
      tags |-> <<"t", "a", "g", "s">>,
      snippet |-> <<"s", "n", "i", "p", "p", "e", "t">>,
      url |-> <<"u", "r", "l">>,
      title |-> <<"t", "i", "t", "l", "e">>,
      markdown_report |-> <<"m", "a", "r", "k", "d", "o", "w", "n", "_", "r", "e", "p", "o", "r", "t">>,
      metadata |-> <<"m", "e", "t", "a", "d", "a", "t", "a">>,
      count |-> <<"c", "o", "u", "n", "t">>,
      status |-> <<"s", "t", "a", "t", "u", "s">>,
      body |-> <<"b", "o", "d", "y">>,
      search_results |-> <<"s", "e", "a", "r", "c", "h", "_", "r", "e", "s", "u", "l", "t", "s">> ]

(***************************************************************************)
(* Python built-ins on values: truthiness, iteration, str(), repr(),       *)
(* float() and int()                                                       *)
(***************************************************************************)
\* bool(x)
Truthy(x) ==
    CASE x.t = "None" -> FALSE
      [] x.t = "bool" -> x.v
      [] x.t \in {"int", "float"} -> x.v # 0
      [] x.t \in {"str", "list", "dict"} -> Len(x.v) > 0
      [] OTHER -> TRUE

\* iter(x) for the iterable built-ins: the elements a for loop visits
Iterable(x) == x.t \in {"list", "dict", "str"}
Elements(x) ==
    CASE x.t = "list" -> x.v
      [] x.t = "dict" -> [i \in 1..Len(x.v) |-> PyStr(x.v[i].k)]
      [] x.t = "str" -> [i \in 1..Len(x.v) |-> PyStr(<<x.v[i]>>)]

DigitChar(d) == <<"0", "1", "2", "3", "4", "5", "6", "7", "8", "9">>[d + 1]

\* str(n) for an int n >= 0
RECURSIVE NatStr(_)
NatStr(n) == IF n < 10 THEN <<DigitChar(n)>> ELSE NatStr(n \div 10) \o <<DigitChar(n % 10)>>

\* repr(x) of a float x >= 0 held in thousandths, such as 0.5 or 1.0
FloatStr(th) ==
    LET frac == th % 1000
        digits == <<DigitChar(frac \div 100), DigitChar((frac \div 10) % 10), DigitChar(frac % 10)>>
        keep == IF frac % 10 # 0 THEN 3 ELSE IF frac % 100 # 0 THEN 2 ELSE 1
    IN NatStr(th \div 1000) \o <<".">> \o SubSeq(digits, 1, keep)

\* repr(s) of a str: single quotes unless s has a single quote and no double quote
RECURSIVE EscapeQuotes(_)
EscapeQuotes(s) ==
    IF s = <<>> THEN <<>>
    ELSE (IF Head(s) = "'" THEN <<"\\", "'">> ELSE <<Head(s)>>) \o EscapeQuotes(Tail(s))

StrRepr(s) ==
    IF (\E i \in 1..Len(s) : s[i] = "'") /\ ~(\E i \in 1..Len(s) : s[i] = "\"")
    THEN <<"\"">> \o s \o <<"\"">>
    ELSE <<"'">> \o EscapeQuotes(s) \o <<"'">>

\* ", ".join(parts)
RECURSIVE JoinComma(_)
JoinComma(parts) ==
    IF parts = <<>> THEN <<>>
    ELSE IF Len(parts) = 1 THEN parts[1]
    ELSE parts[1] \o <<",", " ">> \o JoinComma(Tail(parts))

\* repr(x) of None, bool, int, float, str, list, dict and dataclass values
RECURSIVE Repr(_)
Repr(x) ==
    CASE x.t = "None" -> <<"N", "o", "n", "e">>
      [] x.t = "bool" -> IF x.v THEN <<"T", "r", "u", "e">> ELSE <<"F", "a", "l", "s", "e">>
      [] x.t = "int" -> NatStr(x.v)
      [] x.t = "float" -> FloatStr(x.v)
      [] x.t = "str" -> StrRepr(x.v)
      [] x.t = "list" -> <<"[">> \o JoinComma([i \in 1..Len(x.v) |-> Repr(x.v[i])]) \o <<"]">>
      [] x.t = "dict" ->
            <<"{">> \o JoinComma([i \in 1..Len(x.v) |->
                                     StrRepr(x.v[i].k) \o <<":", " ">> \o Repr(x.v[i].val)])
                    \o <<"}">>
      [] x.t = "WebSearchItem" ->
            <<"W", "e", "b", "S", "e", "a", "r", "c", "h", "I", "t", "e", "m", "(">>
              \o JoinComma(<< K.query \o <<"=">> \o Repr(x.query), K.reason \o <<"=">> \o Repr(x.reason),
                              K.priority \o <<"=">> \o Repr(x.priority), K.rank \o <<"=">> \o Repr(x.rank),
                              K.tags \o <<"=">> \o Repr(x.tags) >>) \o <<")">>
      [] x.t = "WebSearchPlan" ->
            <<"W", "e", "b", "S", "e", "a", "r", "c", "h", "P", "l", "a", "n", "(">>
              \o K.searches \o <<"=">> \o Repr(x.searches) \o <<")">>
      [] x.t = "SearchResultItem" ->
            <<"S", "e", "a", "r", "c", "h", "R", "e", "s", "u", "l", "t", "I", "t", "e", "m", "(">>
              \o JoinComma(<< K.query \o <<"=">> \o Repr(x.query), K.snippet \o <<"=">> \o Repr(x.snippet),
                              K.url \o <<"=">> \o Repr(x.url) >>) \o <<")">>
      [] x.t = "ReportData" ->
            <<"R", "e", "p", "o", "r", "t", "D", "a", "t", "a", "(">>
              \o JoinComma(<< K.title \o <<"=">> \o Repr(x.title),
                              K.markdown_report \o <<"=">> \o Repr(x.markdown_report),
                              K.metadata \o <<"=">> \o Repr(x.metadata) >>) \o <<")">>

\* str(x): the text itself for a str, repr(x) otherwise
Str(x) == IF x.t = "str" THEN x.v ELSE Repr(x)

\* the text is a plain decimal numeral, as float() and int() accept it after stripping
IsNumeral(s) == Len(s) > 0 /\ \A i \in 1..Len(s) : s[i] \in Digits

\* float(x)
ToFloat(x) ==
    CASE x.t = "float" -> Return(x)
      [] x.t = "int" -> Return(PyFloat(1000 * x.v))
      [] x.t = "bool" -> Return(PyFloat(IF x.v THEN 1000 ELSE 0))
      [] x.t = "str" ->
            IF IsNumeral(Strip(x.v, Whitespace))
            THEN Return(PyFloat(1000 * DecimalValue(Strip(x.v, Whitespace))))
            ELSE Raise("ValueError")
      [] OTHER -> Raise("TypeError")

\* int(x)
ToInt(x) ==
    CASE x.t = "int" -> Return(x)
      [] x.t = "float" -> Return(PyInt(x.v \div 1000))
      [] x.t = "bool" -> Return(PyInt(IF x.v THEN 1 ELSE 0))
      [] x.t = "str" ->
            IF IsNumeral(Strip(x.v, Whitespace))
            THEN Return(PyInt(DecimalValue(Strip(x.v, Whitespace))))
            ELSE Raise("ValueError")
      [] OTHER -> Raise("TypeError")

\* the first outcome of a sequence of outcomes that raised, if any, else their values
AnyRaised(outs) == \E i \in 1..Len(outs) : outs[i].raised
FirstRaised(outs) ==
    outs[CHOOSE i \in 1..Len(outs) : outs[i].raised /\ \A j \in 1..(i - 1) : ~outs[j].raised]
Values(outs) == [i \in 1..Len(outs) |-> outs[i].val]

(***************************************************************************)
(* llm_local/planner_agent.py.  The parameter llm of a handler is the      *)
(* outcome of its llm_call: the text returned, or the exception raised.    *)
(***************************************************************************)
SimSplitAlternatives ==
    << <<",">>, <<" ", "a", "b", "o", "u", "t", " ">>, <<" ", "f", "o", "r", " ">>,
       <<" ", "o", "n", " ">>, <<" ", "r", "e", "g", "a", "r", "d", "i", "n", "g", " ">>,
       <<" ", "a", "n", "d", " ">> >>

MAX_SIM_PARTS == 3

\* the dict of one simulated search
SimSearch(query, reason, priority, rank) ==
    PyDict(<< [k |-> K.query, val |-> PyStr(query)], [k |-> K.reason, val |-> PyStr(reason)],
              [k |-> K.priority, val |-> PyFloat(priority)], [k |-> K.rank, val |-> PyInt(rank)] >>)

\* _simulated_planner(payload) for a str payload; 0.9 - i*0.1 in thousandths
_simulated_planner(payload) ==
    LET parts == Take(StripParts(ReSplit(payload, SimSplitAlternatives)), MAX_SIM_PARTS)
        out == [i \in 1..Len(parts) |->
                   SimSearch(parts[i] \o Overview, <<"o", "v", "e", "r", "v", "i", "e", "w">>,
                             900 - i * 100, i)]
    IN PyDict(<< [k |-> K.searches,
                  val |-> PyList(IF Len(parts) = 0
                                 THEN << SimSearch(payload, <<"k", "e", "y", "w", "o", "r", "d">>, 500, 1) >>
                                 ELSE out)] >>)

\* one WebSearchItem(...) of the normalisation loop, for the i-th element it
PlannedItem(it, i) ==
    IF it.t # "dict"
    THEN Return(WebSearchItem(PyStr(Str(it)), None, DEFAULT_PRIORITY, PyInt(i), None))
    ELSE LET priority == ToFloat(DictGet(it.v, K.priority, DEFAULT_PRIORITY))
             rank == ToInt(DictGet(it.v, K.rank, PyInt(i)))
         IN IF priority.raised THEN priority
            ELSE IF rank.raised THEN rank
            ELSE Return(WebSearchItem(DictGet(it.v, K.query, None), DictGet(it.v, K.reason, None),
                                      priority.val, rank.val, DictGet(it.v, K.tags, None)))

\* text = await llm_call(...); parsed = _extract_json_from_text(text), inside the
\* try of a handler: the parsed value, or the exception llm_call raised
LlmParsed(llm) == IF llm.raised THEN llm ELSE _extract_json_from_text(llm.val.v)

\* return WebSearchPlan(searches=searches) once every item was built
LlmPlannerPlan(items) ==
    IF AnyRaised(items) THEN FirstRaised(items)
    ELSE Return(WebSearchPlan(PyList(Values(items))))

\* for i, it in enumerate(searches, start=1): searches.append(WebSearchItem(...))
LlmPlannerItems(searches) ==
    IF ~Iterable(searches) THEN Raise("TypeError")
    ELSE LlmPlannerPlan([i \in 1..Len(Elements(searches)) |->
                            PlannedItem(Elements(searches)[i], i)])

\* the normalisation after the try: parsed.get("searches", []) and the loop
LlmPlannerNormalize(parsed) ==
    IF parsed.t # "dict" THEN Raise("AttributeError")
    ELSE LlmPlannerItems(DictGet(parsed.v, K.searches, PyList(<<>>)))

\* the handler once llm_call and the extractor have run
LlmPlannerFrom(payload, extracted) ==
    LlmPlannerNormalize(IF extracted.raised \/ extracted.val.t = "str"
                        THEN _simulated_planner(payload)
                        ELSE extracted.val)

\* llm_local _planner_handler(agent, payload) for a str payload
LlmPlannerHandler(payload, llm) == LlmPlannerFrom(payload, LlmParsed(llm))

(***************************************************************************)
(* Attribute access on values: only dataclass instances have the           *)
(* attributes the handlers probe with hasattr / getattr                    *)
(***************************************************************************)
HasQuery(x) == x.t \in {"WebSearchItem", "SearchResultItem"}
HasSnippet(x) == x.t = "SearchResultItem"
HasSearches(x) == x.t = "WebSearchPlan"

\* x[:n] works on str and list only
Sliceable(x) == x.t \in {"str", "list"}

\* "\n".join(lines)
RECURSIVE JoinLines(_)
JoinLines(lines) ==
    IF lines = <<>> THEN <<>>
    ELSE IF Len(lines) = 1 THEN lines[1]
    ELSE lines[1] \o <<"\n">> \o JoinLines(Tail(lines))

\* the concatenation of a sequence of sequences
RECURSIVE Flatten(_)
Flatten(xss) == IF xss = <<>> THEN <<>> ELSE Head(xss) \o Flatten(Tail(xss))

SearchResultItem(query, snippet, url) ==
    [t |-> "SearchResultItem", query |-> query, snippet |-> snippet, url |-> url]

ReportData(title, markdown_report, metadata) ==
    [t |-> "ReportData", title |-> title, markdown_report |-> markdown_report,
     metadata |-> metadata]

SearchUrlPrefix ==
    <<"h", "t", "t", "p", "s", ":", "/", "/", "e", "x", "a", "m", "p", "l", "e", ".", "c", "o", "m",
      "/", "s", "e", "a", "r", "c", "h", "?", "q", "=">>

\* f"https://example.com/search?q={q.replace(' ', '+')}" for a str q
SearchUrl(q) == SearchUrlPrefix \o ReplaceChar(q, " ", "+")

ReportTitle == <<"R", "e", "s", "e", "a", "r", "c", "h", " ", "R", "e", "p", "o", "r", "t">>
EmailSent == <<"e", "m", "a", "i", "l", "_", "s", "e", "n", "t">>

\* f"## Result {i}: {q}" and f"[source]({url})"
ResultHeading(i, q) == <<"#", "#", " ", "R", "e", "s", "u", "l", "t", " ">> \o NatStr(i) \o <<":", " ">> \o Str(q)
SourceLink(url) == <<"[", "s", "o", "u", "r", "c", "e", "]", "(">> \o Str(url) \o <<")">>

(***************************************************************************)
(* local/search_agent.py, local/writer_agent.py, local/email_agent.py      *)
(***************************************************************************)
\* the items _search_handler iterates for its payload
SearchItemsOf(payload) ==
    IF payload.t = "list" THEN payload.v
    ELSE IF HasSearches(payload) THEN Elements(payload.searches)
    ELSE << WebSearchItem(PyStr(Str(payload)), None, DEFAULT_PRIORITY, None, None) >>

\* one iteration of the loop of local _search_handler
LocalSearchResult(it) ==
    IF ~HasQuery(it) \/ it.query.t # "str" THEN Raise("AttributeError")
    ELSE Return(SearchResultItem(
             it.query,
             PyStr(<<"S", "i", "m", "u", "l", "a", "t", "e", "d", " ", "s", "n", "i", "p", "p", "e", "t",
                     " ", "f", "o", "r", " ", "'">> \o it.query.v
                   \o <<"'", ":", " ", "k", "e", "y", " ", "f", "i", "n", "d", "i", "n", "g", "s", " ",
                        "a", "n", "d", " ", "s", "u", "m", "m", "a", "r", "y", ".">>),
             PyStr(SearchUrl(it.query.v))))

\* local _search_handler leaving its loop one item early
LocalSearchDropsLast(payload) ==
    LET items == SearchItemsOf(payload) IN
    Return(PyList([i \in 1..(Len(items) - 1) |-> LocalSearchResult(items[i]).val]))

\* local _search_handler(agent, payload)
LocalSearchHandler(payload) ==
    IF payload.t # "list" /\ HasSearches(payload) /\ ~Iterable(payload.searches)
    THEN Raise("TypeError")
    ELSE LET items == SearchItemsOf(payload)
             results == [i \in 1..Len(items) |-> LocalSearchResult(items[i])]
         IN IF AnyRaised(results) THEN FirstRaised(results)
            ELSE Return(PyList(Values(results)))

\* one result section whose heading is always numbered 1
LocalSectionFirst(i, item) ==
    << ResultHeading(1, item.query), item.snippet.v, SourceLink(item.url), <<>> >>

\* the four lines of one result section of the local report
LocalSection(i, item) ==
    << ResultHeading(i, item.query), item.snippet.v, SourceLink(item.url), <<>> >>

\* the findings local _writer_handler takes from its payload
WriterFindings(payload) ==
    IF payload.t = "list" /\ \A i \in 1..Len(payload.v) : HasSnippet(payload.v[i])
    THEN payload
    ELSE IF payload.t = "dict" /\ HasKey(payload.v, K.search_results)
    THEN DictGet(payload.v, K.search_results, None)
    ELSE PyList(<< PyStr(Str(payload)) >>)

\* the report local _writer_handler builds from its findings
LocalWriterReport(findings) ==
    LET sections == findings.t = "list" /\ Len(findings.v) > 0 /\ HasSnippet(findings.v[1])
        head == << <<"#", " ">> \o ReportTitle, <<>> >>
    IN IF sections /\ \E i \in 1..Len(findings.v) : ~HasSnippet(findings.v[i])
       THEN Raise("AttributeError")
       ELSE IF sections /\ \E i \in 1..Len(findings.v) : findings.v[i].snippet.t # "str"
       THEN Raise("TypeError")
       ELSE IF findings.t \notin {"list", "dict", "str"}
       THEN Raise("TypeError")
       ELSE LET lines == IF sections
                         THEN head \o Flatten([i \in 1..Len(findings.v) |-> LocalSection(i, findings.v[i])])
                         ELSE head \o << <<"F", "i", "n", "d", "i", "n", "g", "s", ":">>, Str(findings) >>
            IN Return(ReportData(PyStr(ReportTitle), PyStr(JoinLines(lines)),
                                 PyDict(<< [k |-> K.count, val |-> PyInt(Len(findings.v))] >>)))

\* local _writer_handler(agent, payload)
LocalWriterHandler(payload) == LocalWriterReport(WriterFindings(payload))

\* the body both Email handlers take from their payload
EmailBody(payload) ==
    IF payload.t = "ReportData" THEN payload.markdown_report
    ELSE IF payload.t = "dict" THEN DictGet(payload.v, K.markdown_report, None)
    ELSE PyStr(Str(payload))

\* local _email_handler(agent, payload)
LocalEmailHandler(payload) ==
    IF payload.t = "dict" /\ ~HasKey(payload.v, K.markdown_report)
    THEN Return(PyStr(EmailSent))
    ELSE IF ~Sliceable(EmailBody(payload)) THEN Raise("TypeError")
    ELSE Return(PyStr(EmailSent))

(***************************************************************************)
(* llm_local/search_agent.py                                               *)
(***************************************************************************)
\* one iteration of the loop of _simulated_search
SimulatedSearchResult(it) ==
    LET q == IF HasQuery(it) THEN it.query ELSE PyStr(Str(it)) IN
    IF q.t # "str" THEN Raise("AttributeError")
    ELSE Return(PyDict(<< [k |-> K.query, val |-> q],
                          [k |-> K.snippet,
                           val |-> PyStr(<<"S", "i", "m", "u", "l", "a", "t", "e", "d", " ", "s", "n",
                                           "i", "p", "p", "e", "t", " ", "f", "o", "r", " ">> \o q.v)],
                          [k |-> K.url, val |-> PyStr(SearchUrl(q.v))] >>))

\* _simulated_search appending each result at the front of out
SimulatedSearchReversed(payload) ==
    LET items == IF payload.t = "list" THEN payload.v ELSE Elements(payload.searches) IN
    Return(PyList([i \in 1..Len(items) |-> SimulatedSearchResult(items[Len(items) + 1 - i]).val]))

_simulated_search(payload) ==
    IF payload.t # "list" /\ HasSearches(payload) /\ ~Iterable(payload.searches)
    THEN Raise("TypeError")
    ELSE LET items == IF payload.t = "list" THEN payload.v
                      ELSE IF HasSearches(payload) THEN Elements(payload.searches)
                      ELSE <<payload>>
             out == [i \in 1..Len(items) |-> SimulatedSearchResult(items[i])]
         IN IF AnyRaised(out) THEN FirstRaised(out) ELSE Return(PyList(Values(out)))

\* one iteration of the results loop of llm_local _search_handler
LlmSearchResult(it) ==
    IF it.t # "dict" THEN Raise("AttributeError")
    ELSE LET q == DictGet(it.v, K.query, None) IN
         IF q.t # "str" THEN Raise("AttributeError")
         ELSE Return(SearchResultItem(
                  q,
                  DictGet(it.v, K.snippet,
                          PyStr(<<"S", "n", "i", "p", "p", "e", "t", " ", "f", "o", "r", " ">> \o q.v)),
                  DictGet(it.v, K.url, PyStr(SearchUrl(q.v)))))

\* the results loop of llm_local _search_handler over parsed
LlmSearchResults(parsed) ==
    IF parsed.raised THEN parsed
    ELSE LET results == [i \in 1..Len(parsed.val.v) |-> LlmSearchResult(parsed.val.v[i])] IN
         IF AnyRaised(results) THEN FirstRaised(results)
         ELSE Return(PyList(Values(results)))

\* the handler once llm_call and the extractor have run
LlmSearchFrom(payload, extracted) ==
    IF payload.t # "list" /\ HasSearches(payload) /\ ~Iterable(payload.searches)
    THEN Raise("TypeError")
    ELSE IF /\ payload.t # "list" /\ HasSearches(payload)
            /\ \E i \in 1..Len(Elements(payload.searches)) :
                   Elements(payload.searches)[i].t # "WebSearchItem"
    THEN Raise("AttributeError")
    ELSE LlmSearchResults(IF extracted.raised \/ extracted.val.t # "list"
                          THEN _simulated_search(payload)
                          ELSE extracted)

\* llm_local _search_handler(agent, payload)
LlmSearchHandler(payload, llm) == LlmSearchFrom(payload, LlmParsed(llm))

(***************************************************************************)
(* llm_local/writer_agent.py                                               *)
(***************************************************************************)
\* the four lines of one iteration of the loop of _simulated_writer, r a dict
SimulatedSection(i, r) ==
    << ResultHeading(i, DictGet(r.v, K.query, PyStr(Str(r)))),
       DictGet(r.v, K.snippet, PyStr(<<>>)).v,
       SourceLink(DictGet(r.v, K.url, PyStr(<<>>))),
       <<>> >>

_simulated_writer(payload) ==
    LET results == IF payload.t = "list" THEN payload
                   ELSE DictGet(payload.v, K.search_results, PyList(<<>>))
    IN IF ~Iterable(results) THEN Raise("TypeError")
       ELSE LET rs == Elements(results) IN
            IF \E i \in 1..Len(rs) : rs[i].t # "dict" THEN Raise("AttributeError")
            ELSE IF \E i \in 1..Len(rs) : DictGet(rs[i].v, K.snippet, PyStr(<<>>)).t # "str"
            THEN Raise("TypeError")
            ELSE LET lines == << <<"#", " ">> \o ReportTitle \o <<"\n">> >>
                                 \o Flatten([i \in 1..Len(rs) |-> SimulatedSection(i, rs[i])])
                 IN Return(PyDict(<< [k |-> K.title, val |-> PyStr(ReportTitle)],
                                     [k |-> K.markdown_report, val |-> PyStr(JoinLines(lines))],
                                     [k |-> K.metadata,
                                      val |-> PyDict(<< [k |-> K.count, val |-> PyInt(Len(rs))] >>)] >>))

\* return ReportData(title=parsed.get(...), ...), or the exception parsed is
LlmWriterReport(parsed) ==
    IF parsed.raised THEN parsed
    ELSE Return(ReportData(DictGet(parsed.val.v, K.title, PyStr(ReportTitle)),
                           DictGet(parsed.val.v, K.markdown_report, PyStr(Str(parsed.val))),
                           DictGet(parsed.val.v, K.metadata, PyDict(<<>>))))

\* the handler once llm_call and the extractor have run
LlmWriterFrom(payload, extracted) ==
    LET results == IF payload.t = "list" THEN payload
                   ELSE DictGet(payload.v, K.search_results, payload)
    IN IF ~Iterable(results) THEN Raise("TypeError")
       ELSE LlmWriterReport(IF extracted.raised \/ extracted.val.t # "dict"
                            THEN _simulated_writer(payload)
                            ELSE extracted)

\* llm_local _writer_handler(agent, payload)
LlmWriterHandler(payload, llm) == LlmWriterFrom(payload, LlmParsed(llm))

(***************************************************************************)
(* llm_local/email_agent.py                                                *)
(***************************************************************************)
\* _simulated_email(payload): the body was sliced once already by the handler
_simulated_email(payload) == Return(PyStr(EmailSent))

\* the handler once llm_call and the extractor have run
LlmEmailFrom(payload, extracted) ==
    IF ~Sliceable(EmailBody(payload)) THEN Raise("TypeError")
    ELSE IF /\ ~extracted.raised
            /\ extracted.val.t = "dict"
            /\ Truthy(DictGet(extracted.val.v, K.status, None))
            /\ Sliceable(DictGet(extracted.val.v, K.body, None))
         THEN Return(DictGet(extracted.val.v, K.status, None))
         ELSE _simulated_email(payload)

\* llm_local _email_handler(agent, payload)
LlmEmailHandler(payload, llm) == LlmEmailFrom(payload, LlmParsed(llm))

(***************************************************************************)
(* agents.py: the handler registry, RunnerResult and Runner.run            *)
(***************************************************************************)
AgentNames == {"PlannerAgent", "SearchAgent", "WriterAgent", "EmailAgent", "ManagerAgent"}
ToolAgents == {"PlannerAgent", "SearchAgent", "WriterAgent", "EmailAgent"}

\* the handler each agent module registers when it is imported
ShippedHandler(name) ==
    [fn |-> CASE name = "PlannerAgent" -> "_planner_handler"
              [] name = "SearchAgent" -> "_search_handler"
              [] name = "WriterAgent" -> "_writer_handler"
              [] name = "EmailAgent" -> "_email_handler"
              [] name = "ManagerAgent" -> "_manager_handler",
     stub |-> 0]

\* another callable registered in its place: it raises (0) or returns StubReturns[i]
StubHandler(i) == [fn |-> "stub", stub |-> i]

StubReturns ==
    << None,
       PyDict(<< [k |-> K.searches,
                  val |-> PyList(<< PyDict(<< [k |-> K.query, val |-> PyStr(<<"a", "b", "c">>)] >>) >>)] >>),
       PyDict(<< [k |-> K.title, val |-> PyStr(<<"t">>)],
                 [k |-> K.markdown_report, val |-> PyStr(<<"m">>)] >>),
       PyDict(<< [k |-> K.markdown_report, val |-> PyStr(<<"m">>)] >>),
       PyList(<<>>) >>

\* the registry once the manager module and the modules it imports are loaded
StartupRegistry == [n \in AgentNames |-> ShippedHandler(n)]

\* a registry in which the first handler of a name stays
RegisterKeepsFirst(reg, name, handler) ==
    [n \in (DOMAIN reg) \cup {name} |-> IF n \in DOMAIN reg THEN reg[n] ELSE handler]

\* _AGENT_HANDLERS[agent.name] = handler
register_agent_handler(reg, name, handler) ==
    [n \in (DOMAIN reg) \cup {name} |-> IF n = name THEN handler ELSE reg[n]]

RunnerResult(output) == [t |-> "RunnerResult", output |-> output]

\* handler(agent, payload) for a tool agent's handler of package rt
CallHandler(rt, handler, payload, llm) ==
    CASE handler.fn = "stub" ->
            IF handler.stub = 0 THEN Raise("StubError") ELSE Return(StubReturns[handler.stub])
      [] handler.fn = "_planner_handler" ->
            IF rt = "local" THEN LocalPlannerHandler(Str(payload))
            ELSE LlmPlannerHandler(Str(payload), llm)
      [] handler.fn = "_search_handler" ->
            IF rt = "local" THEN LocalSearchHandler(payload) ELSE LlmSearchHandler(payload, llm)
      [] handler.fn = "_writer_handler" ->
            IF rt = "local" THEN LocalWriterHandler(payload) ELSE LlmWriterHandler(payload, llm)
      [] handler.fn = "_email_handler" ->
            IF rt = "local" THEN LocalEmailHandler(payload) ELSE LlmEmailHandler(payload, llm)

\* return RunnerResult(output=out): an exception of the handler propagates
RunnerOutcome(out) == IF out.raised THEN out ELSE Return(RunnerResult(out.val))

\* Runner.run returning out itself, not a RunnerResult
RunnerRunUnwrapped(rt, reg, name, payload, llm) ==
    IF name \notin DOMAIN reg THEN Raise("RuntimeError")
    ELSE CallHandler(rt, reg[name], payload, llm)

\* Runner.run(agent, payload) with no timeout
Runner_run(rt, reg, name, payload, llm) ==
    IF name \notin DOMAIN reg THEN Raise("RuntimeError")
    ELSE RunnerOutcome(CallHandler(rt, reg[name], payload, llm))

\* what one Runner.run adds to the log: the handler invocation, if a handler is
\* registered, and how Runner.run ended
RunEvents(reg, name, res) ==
    (IF name \in DOMAIN reg THEN << <<"call", name>> >> ELSE <<>>)
        \o << <<IF res.raised THEN "raise" ELSE "return", name>> >>

(***************************************************************************)
(* manager_agent.py: the steps of _manager_handler between its awaits      *)
(***************************************************************************)
\* len(x) is defined
Sized(x) == x.t \in {"list", "dict", "str"}

\* WebSearchItem(**s) for a dict s
WebSearchItemFromDict(s) ==
    IF /\ HasKey(s.v, K.query)
       /\ \A i \in 1..Len(s.v) : s.v[i].k \in {K.query, K.reason, K.priority, K.rank, K.tags}
    THEN Return(WebSearchItem(DictGet(s.v, K.query, None), DictGet(s.v, K.reason, None),
                              DictGet(s.v, K.priority, DEFAULT_PRIORITY), DictGet(s.v, K.rank, None),
                              DictGet(s.v, K.tags, None)))
    ELSE Raise("TypeError")

\* ReportData(**report) for a dict report
ReportDataFromDict(r) ==
    IF /\ HasKey(r.v, K.title) /\ HasKey(r.v, K.markdown_report)
       /\ \A i \in 1..Len(r.v) : r.v[i].k \in {K.title, K.markdown_report, K.metadata}
    THEN Return(ReportData(DictGet(r.v, K.title, None), DictGet(r.v, K.markdown_report, None),
                           DictGet(r.v, K.metadata, None)))
    ELSE Raise("TypeError")

\* the searches the manager takes from the planner's output
PlanSearches(rt, plan) ==
    IF plan.t = "WebSearchPlan" THEN Return(plan.searches)
    ELSE IF plan.t = "dict" /\ HasKey(plan.v, K.searches)
    THEN LET given == DictGet(plan.v, K.searches, None) IN
         IF rt = "local" THEN Return(given)
         ELSE IF ~Iterable(given) THEN Raise("TypeError")
         ELSE LET items == [i \in 1..Len(Elements(given)) |->
                               IF Elements(given)[i].t = "dict"
                               THEN WebSearchItemFromDict(Elements(given)[i])
                               ELSE Return(Elements(given)[i])]
              IN IF AnyRaised(items) THEN FirstRaised(items) ELSE Return(PyList(Values(items)))
    ELSE Raise("RuntimeError")

\* the report the manager takes from the writer's output
WriterReport(out) ==
    IF out.t = "ReportData" THEN Return(out)
    ELSE IF out.t = "dict" /\ HasKey(out.v, K.markdown_report) THEN ReportDataFromDict(out)
    ELSE Raise("RuntimeError")

\* the local manager prints len(x) of what it got before the next stage
LenPrinted(rt, x) == IF rt = "local" /\ ~Sized(x) THEN Raise("TypeError") ELSE Return(x)

\* the handler of name is the shipped one of package rt and reaches its llm_call
\* (the statements before the try block did not raise)
CallsLlm(rt, reg, name, payload) ==
    /\ rt = "llm_local"
    /\ name \in DOMAIN reg
    /\ CASE reg[name].fn = "_planner_handler" -> TRUE
         [] reg[name].fn = "_search_handler" -> ~LlmSearchHandler(payload, Return(PyStr(<<>>))).raised
                                                \/ payload.t = "list" \/ ~HasSearches(payload)
         [] reg[name].fn = "_writer_handler" ->
                Iterable(IF payload.t = "list" THEN payload
                         ELSE DictGet(payload.v, K.search_results, payload))
         [] reg[name].fn = "_email_handler" -> Sliceable(EmailBody(payload))
         [] OTHER -> FALSE

\* llm_failures after a Runner.run whose llm_call, if made, had the outcome llm
CountLlm(counts, called, llm) ==
    IF called THEN << counts[1] + (IF llm.raised THEN 1 ELSE 0), counts[2] + 1 >> ELSE counts

\* the state of the variables of a Manager run when no run is modelled
NoRun ==
    /\ runtime = "local"
    /\ registry = StartupRegistry
    /\ registrations = 0
    /\ pc = "idle"
    /\ m_query = <<>>
    /\ m_searches = None
    /\ m_search_results = None
    /\ m_report = None
    /\ m_result = Return(None)
    /\ log = <<>>
    /\ llm_failures = <<0, 0>>

\* the state of the variables of a function call when no call is modelled
NoCall ==
    /\ arg = <<>>
    /\ ret = Return(None)
    /\ phase = "ready"
    /\ agent = ""
    /\ reply = Return(None)

\* the state of the variables of the event loop when no loop is modelled
NoLoop ==
    /\ clock = 0
    /\ tasks = <<>>

\* the state of the variables of the host wrapper when it is not modelled
NoHost ==
    /\ main_pc = "none"
    /\ server_proc = "None"
    /\ server = "absent"

(***************************************************************************)
(* The extractor on its own: every text up to MaxTextLen characters over   *)
(* ExtractChars, and some longer ones.                                     *)
(***************************************************************************)
MaxTextLen == 3
ExtractChars == {"{", "}", "[", "]", "'", "\"", ":", ",", "1", "a", " "}

RECURSIVE StringsUpTo(_, _)
StringsUpTo(n, chars) ==
    IF n = 0 THEN {<<>>}
    ELSE LET shorter == StringsUpTo(n - 1, chars) IN
         shorter \cup {Append(s, c) : s \in {x \in shorter : Len(x) = n - 1}, c \in chars}

LongTexts ==
    { <<"{", "'", "a", "'", ":", "1", "}">>,
      <<"a", " ", "{", "\"", "a", "\"", ":", " ", "1", "}", " ", "a">>,
      <<"a", "{", "'", "a", "\"", ":", "]", "}", "a">>,
      <<"[", "1", ",", " ", "'", "a", "'", "]", "}">>,
      <<"{", "[", "1", "]", " ", "{", "}">>,
      <<"n", "u", "l", "l">>,
      <<"\"", "a", "'", "a", "\"">> }

ExtractTexts == StringsUpTo(MaxTextLen, ExtractChars) \cup LongTexts

InitExtract ==
    /\ arg \in ExtractTexts
    /\ ret = Return(None)
    /\ phase = "ready"
    /\ agent = ""
    /\ reply = Return(None)
    /\ NoRun
    /\ NoLoop
    /\ NoHost

Extract ==
    /\ phase = "ready"
    /\ ret' = _extract_json_from_text(arg)
    /\ phase' = "returned"
    /\ UNCHANGED <<arg, agent, reply, runVars, loopVars, hostVars>>

NextExtract == Extract

SpecExtract == InitExtract /\ [][NextExtract]_vars

\* C10: the extractor never raises, and when neither json.loads(candidate) nor
\* json.loads of the quote-repaired candidate succeeds it returns the whole text
C10_ExtractorFallsBackToText ==
    phase = "returned" =>
        /\ ~ret.raised
        /\ (json_loads(Candidate(arg)).raised /\ json_loads(QuoteFix(Candidate(arg))).raised)
               => (ret.val.t = "str" /\ ret.val.v = arg)

\* both parses failed on a candidate that is a proper part of the text and that
\* the quote repair changes
C10_Witness ==
    /\ phase = "returned"
    /\ json_loads(Candidate(arg)).raised
    /\ json_loads(QuoteFix(Candidate(arg))).raised
    /\ Candidate(arg) # arg
    /\ QuoteFix(Candidate(arg)) # Candidate(arg)
    /\ ret.val.t = "str"
    /\ ret.val.v = arg

\* C11: when the text holds no "{...}" and no "[...]" span, the extractor returns
\* the text itself, a string equal to its input
C11_NoSpanReturnsText ==
    (phase = "returned" /\ \A i \in 1..Len(arg) : ~MatchAt(arg, i)) =>
        /\ ~ret.raised
        /\ ret.val.t = "str"
        /\ ret.val.v = arg

(***************************************************************************)
(* The local Planner on its own: every query up to MaxQueryLen characters  *)
(* over QueryChars, and some longer ones.                                  *)
(***************************************************************************)
MaxQueryLen == 3
QueryChars == {"a", "A", ",", " "}

LongQueries ==
    { <<"i", "s", ",", "I", "S">>,
      <<"a", " ", "a", "b", "o", "u", "t", " ", "b">>,
      <<"x", " ", "a", "n", "d", " ", "y">>,
      <<"a", " ", "o", "n", " ", "b">>,
      <<"f", "o", "r">>,
      <<"a", " ", "b", " ", "c", " ", "d", " ", "e", " ", "f", " ", "g", " ", "h">>,
      <<"w", "h", "o", ",", " ", "a", "/", "b">>,
      <<"c", "o", "u", "l", "d">>,
      <<"T", "h", "i", "s", " ", "-", " ", "B", "a", "n", "d">> }

PlannerQueries == StringsUpTo(MaxQueryLen, QueryChars) \cup LongQueries

InitPlan ==
    /\ arg \in PlannerQueries
    /\ ret = Return(None)
    /\ phase = "ready"
    /\ agent = ""
    /\ reply = Return(None)
    /\ NoRun
    /\ NoLoop
    /\ NoHost

Plan ==
    /\ phase = "ready"
    /\ ret' = LocalPlannerHandler(arg)
    /\ phase' = "returned"
    /\ UNCHANGED <<arg, agent, reply, runVars, loopVars, hostVars>>

NextPlan == Plan

SpecPlan == InitPlan /\ [][NextPlan]_vars

\* the searches of the plan the Planner returned, and the candidates it refined
Planned == ret.val.searches.v
Generated == PlannerCandidates(arg)

\* the index of the first generated candidate that normalises to the key of item
FirstWithKey(item) ==
    CHOOSE c \in 1..Len(Generated) :
        /\ NormKey(Generated[c]) = LowerStr(item.query.v)
        /\ \A d \in 1..(c - 1) : NormKey(Generated[d]) # LowerStr(item.query.v)

\* C6 (as claimed): a non-empty query gets a plan of 1 to 6 items
C6_PlanSizeInRange ==
    (phase = "returned" /\ arg # <<>>) =>
        (~ret.raised /\ Len(Planned) >= MIN_SEARCHES /\ Len(Planned) <= MAX_SEARCHES)

\* C7: no two planned items have the same case-insensitive normalised query, and
\* each planned item is the first generated candidate with its normalised text
C7_DedupKeepsFirst ==
    phase = "returned" =>
        /\ \A i, j \in 1..Len(Planned) :
               i # j => LowerStr(Planned[i].query.v) # LowerStr(Planned[j].query.v)
        /\ \A j \in 1..Len(Planned) :
               /\ \E c \in 1..Len(Generated) : NormKey(Generated[c]) = LowerStr(Planned[j].query.v)
               /\ Planned[j].query.v = NormQuery(Generated[FirstWithKey(Planned[j])])
               /\ Planned[j].reason = Generated[FirstWithKey(Planned[j])].reason

\* a plan whose first item had a later candidate of the same key in another case
C7_Witness ==
    /\ phase = "returned"
    /\ Len(Planned) >= 1
    /\ \E c, d \in 1..Len(Generated) :
           /\ c < d
           /\ NormKey(Generated[c]) = NormKey(Generated[d])
           /\ NormQuery(Generated[c]) # NormQuery(Generated[d])
           /\ Planned[1].query.v = NormQuery(Generated[c])

\* C8: ranks are 1..k in list order, priorities never increase along the list, and
\* items of equal priority stay in the order their candidates were generated
C8_RanksAndOrder ==
    phase = "returned" =>
        /\ \A j \in 1..Len(Planned) : Planned[j].rank = PyInt(j)
        /\ \A i, j \in 1..Len(Planned) :
               i < j =>
                   /\ Planned[i].priority.v >= Planned[j].priority.v
                   /\ (Planned[i].priority.v = Planned[j].priority.v
                          => FirstWithKey(Planned[i]) < FirstWithKey(Planned[j]))

\* a plan of at least two items
C8_Witness == phase = "returned" /\ Len(Planned) >= 2

(***************************************************************************)
(* A Manager run: the process has imported the manager module of one       *)
(* package; handlers may be registered over the shipped ones before the    *)
(* run; Runner.run(manager_agent, query) then steps through the stages.    *)
(* Each llm_call of package llm_local either raises or returns a text.     *)
(***************************************************************************)
MaxRegistrations == 1

RunQueries ==
    { <<>>, <<",">>, <<"a">>, <<"a", ",", "A">>,
      <<"x", " ", "a", "n", "d", " ", "y">>,
      <<"a", "\n", "#", "#", " ", "R", "e", "s", "u", "l", "t", " ", "9">> }

LlmTexts ==
    { <<"a">>,
      <<"[", "1", "]">>,
      <<"[", "]">>,
      <<"[", "{", "\"", "q", "u", "e", "r", "y", "\"", ":", "\"", "a", "b", "c", "\"", "}", "]">>,
      <<"{", "\"", "s", "e", "a", "r", "c", "h", "e", "s", "\"", ":", "[",
        "{", "\"", "q", "u", "e", "r", "y", "\"", ":", "\"", "a", "\"", ",",
             "\"", "r", "a", "n", "k", "\"", ":", "5", "}", ",",
        "{", "\"", "q", "u", "e", "r", "y", "\"", ":", "\"", "A", "\"", ",",
             "\"", "p", "r", "i", "o", "r", "i", "t", "y", "\"", ":", "1", "}", "]", "}">>,
      <<"{", "\"", "m", "a", "r", "k", "d", "o", "w", "n", "_", "r", "e", "p", "o", "r", "t", "\"",
        ":", "1", "}">>,
      <<"{", "\"", "t", "i", "t", "l", "e", "\"", ":", "\"", "t", "\"", ",",
        "\"", "m", "a", "r", "k", "d", "o", "w", "n", "_", "r", "e", "p", "o", "r", "t", "\"", ":",
        "\"", "m", "\"", ",",
        "\"", "m", "e", "t", "a", "d", "a", "t", "a", "\"", ":", "n", "u", "l", "l", "}">>,
      <<"{", "'", "s", "t", "a", "t", "u", "s", "'", ":", "'", "o", "k", "'", ",",
        "'", "b", "o", "d", "y", "'", ":", "'", "b", "'", "}">>,
      <<"{", "\"", "s", "t", "a", "t", "u", "s", "\"", ":", "\"", "o", "k", "\"", "}">> }

LlmDown == Raise("RuntimeError")
LlmOutcomes == {LlmDown} \cup {Return(PyStr(text)) : text \in LlmTexts}

InitRun ==
    /\ NoCall
    /\ NoLoop
    /\ NoHost
    /\ runtime \in {"local", "llm_local"}
    /\ registry = StartupRegistry
    /\ registrations = 0
    /\ pc = "idle"
    /\ m_query = <<>>
    /\ m_searches = None
    /\ m_search_results = None
    /\ m_report = None
    /\ m_result = Return(None)
    /\ log = <<>>
    /\ llm_failures = <<0, 0>>

\* register_agent_handler(agent, handler) with another callable, before the run
Register ==
    /\ pc = "idle"
    /\ registrations < MaxRegistrations
    /\ \E name \in ToolAgents, i \in 0..Len(StubReturns) :
           registry' = register_agent_handler(registry, name, StubHandler(i))
    /\ registrations' = registrations + 1
    /\ UNCHANGED <<callVars, loopVars, hostVars, runtime, pc, m_query, m_searches, m_search_results, m_report,
                   m_result, log, llm_failures>>

\* Runner.run(manager_agent, query) enters _manager_handler
Start ==
    /\ pc = "idle"
    /\ m_query' \in RunQueries
    /\ pc' = "planning"
    /\ UNCHANGED <<callVars, loopVars, hostVars, runtime, registry, registrations, m_searches, m_search_results,
                   m_report, m_result, log, llm_failures>>

\* planner_res = await Runner.run(planner_agent, query), and the check of its output
ManagerPlan ==
    /\ pc = "planning"
    /\ \E llm \in LlmOutcomes :
       \E res \in {Runner_run(runtime, registry, "PlannerAgent", PyStr(m_query), llm)} :
       \E got \in {IF res.raised THEN res ELSE PlanSearches(runtime, res.val.output)} :
       \E out \in {IF got.raised THEN got ELSE LenPrinted(runtime, got.val)} :
              /\ log' = log \o RunEvents(registry, "PlannerAgent", res)
              /\ llm_failures' = CountLlm(llm_failures,
                                     CallsLlm(runtime, registry, "PlannerAgent", PyStr(m_query)), llm)
              /\ IF out.raised
                 THEN /\ pc' = "failed"
                      /\ m_result' = out
                      /\ UNCHANGED m_searches
                 ELSE /\ pc' = "searching"
                      /\ m_searches' = out.val
                      /\ UNCHANGED m_result
    /\ UNCHANGED <<callVars, loopVars, hostVars, runtime, registry, registrations, m_query, m_search_results, m_report>>

\* a variant of the Search step that goes on to the Writer after Runner.run raised
ManagerSearchContinue ==
    /\ pc = "searching"
    /\ \E llm \in LlmOutcomes :
       \E res \in {Runner_run(runtime, registry, "SearchAgent", m_searches, llm)} :
              /\ log' = log \o RunEvents(registry, "SearchAgent", res)
              /\ llm_failures' = CountLlm(llm_failures,
                                     CallsLlm(runtime, registry, "SearchAgent", m_searches), llm)
              /\ pc' = "writing"
              /\ m_search_results' = IF res.raised THEN PyList(<<>>) ELSE res.val.output
              /\ UNCHANGED m_result
    /\ UNCHANGED <<callVars, loopVars, hostVars, runtime, registry, registrations, m_query, m_searches, m_report>>

\* search_res = await Runner.run(search_agent, searches)
ManagerSearch ==
    /\ pc = "searching"
    /\ \E llm \in LlmOutcomes :
       \E res \in {Runner_run(runtime, registry, "SearchAgent", m_searches, llm)} :
       \E out \in {IF res.raised THEN res ELSE LenPrinted(runtime, res.val.output)} :
              /\ log' = log \o RunEvents(registry, "SearchAgent", res)
              /\ llm_failures' = CountLlm(llm_failures,
                                     CallsLlm(runtime, registry, "SearchAgent", m_searches), llm)
              /\ IF out.raised
                 THEN /\ pc' = "failed"
                      /\ m_result' = out
                      /\ UNCHANGED m_search_results
                 ELSE /\ pc' = "writing"
                      /\ m_search_results' = out.val
                      /\ UNCHANGED m_result
    /\ UNCHANGED <<callVars, loopVars, hostVars, runtime, registry, registrations, m_query, m_searches, m_report>>

\* writer_payload = {"search_results": search_results}
WriterPayload(results) == PyDict(<< [k |-> K.search_results, val |-> results] >>)

\* a variant of the Writer step that calls the Writer again after it raised
ManagerWriteRetry ==
    /\ pc = "writing"
    /\ \E llm \in LlmOutcomes :
       \E payload \in {WriterPayload(m_search_results)} :
       \E res \in {Runner_run(runtime, registry, "WriterAgent", payload, llm)} :
       \E out \in {IF res.raised THEN res ELSE WriterReport(res.val.output)} :
              /\ log' = log \o RunEvents(registry, "WriterAgent", res)
              /\ llm_failures' = CountLlm(llm_failures,
                                     CallsLlm(runtime, registry, "WriterAgent", payload), llm)
              /\ IF out.raised
                 THEN /\ pc' = "writing"
                      /\ UNCHANGED <<m_report, m_result>>
                 ELSE /\ pc' = "emailing"
                      /\ m_report' = out.val
                      /\ UNCHANGED m_result
    /\ UNCHANGED <<callVars, loopVars, hostVars, runtime, registry, registrations, m_query, m_searches,
                   m_search_results>>

\* writer_res = await Runner.run(writer_agent, writer_payload), and the check of its output
ManagerWrite ==
    /\ pc = "writing"
    /\ \E llm \in LlmOutcomes :
       \E payload \in {WriterPayload(m_search_results)} :
       \E res \in {Runner_run(runtime, registry, "WriterAgent", payload, llm)} :
       \E out \in {IF res.raised THEN res ELSE WriterReport(res.val.output)} :
              /\ log' = log \o RunEvents(registry, "WriterAgent", res)
              /\ llm_failures' = CountLlm(llm_failures,
                                     CallsLlm(runtime, registry, "WriterAgent", payload), llm)
              /\ IF out.raised
                 THEN /\ pc' = "failed"
                      /\ m_result' = out
                      /\ UNCHANGED m_report
                 ELSE /\ pc' = "emailing"
                      /\ m_report' = out.val
                      /\ UNCHANGED m_result
    /\ UNCHANGED <<callVars, loopVars, hostVars, runtime, registry, registrations, m_query, m_searches,
                   m_search_results>>

\* await Runner.run(email_agent, report); return report
ManagerEmail ==
    /\ pc = "emailing"
    /\ \E llm \in LlmOutcomes :
       \E res \in {Runner_run(runtime, registry, "EmailAgent", m_report, llm)} :
           /\ log' = log \o RunEvents(registry, "EmailAgent", res)
           /\ llm_failures' = CountLlm(llm_failures,
                                  CallsLlm(runtime, registry, "EmailAgent", m_report), llm)
           /\ IF res.raised
              THEN /\ pc' = "failed"
                   /\ m_result' = res
              ELSE /\ pc' = "done"
                   /\ m_result' = Return(m_report)
    /\ UNCHANGED <<callVars, loopVars, hostVars, runtime, registry, registrations, m_query, m_searches,
                   m_search_results, m_report>>

Next == Register \/ Start \/ ManagerPlan \/ ManagerSearch \/ ManagerWrite \/ ManagerEmail

Spec == InitRun /\ [][Next]_vars

(***************************************************************************)
(* Properties of a Manager run                                             *)
(***************************************************************************)
StageOrder == <<"PlannerAgent", "SearchAgent", "WriterAgent", "EmailAgent">>

\* the run was made with the handlers the package registers at import
ShippedRun == registry = StartupRegistry

\* every llm_call made so far raised
LlmAlwaysFailed == llm_failures[1] = llm_failures[2]

\* C1 (as claimed): in llm_local with the shipped handlers, a run in which every
\* llm_call failed ends by returning a ReportData
C1_FallbackRunCompletes ==
    (runtime = "llm_local" /\ ShippedRun /\ LlmAlwaysFailed /\ pc \in {"done", "failed"}) =>
        (pc = "done" /\ ~m_result.raised /\ m_result.val.t = "ReportData")

\* C2: the handlers are invoked in the order Planner, Search, Writer, Email, each
\* at most once, each only after the Runner.run before it returned, and the run is
\* done only after the Runner.run of Email returned
C2_StagesInOrder ==
    /\ Len(log) <= 2 * Len(StageOrder)
    /\ \A i \in 1..Len(log) :
           /\ log[i][2] = StageOrder[(i + 1) \div 2]
           /\ (i % 2 = 1) => log[i][1] = "call"
           /\ (i % 2 = 0) => log[i][1] \in {"return", "raise"}
           /\ (i > 1 /\ log[i][1] = "call") => log[i - 1][1] = "return"
    /\ pc = "done" =>
           (Len(log) = 2 * Len(StageOrder) /\ log[Len(log)] = <<"return", "EmailAgent">>)

\* a finished llm_local run of the shipped handlers, all four stages invoked
C2_Witness ==
    /\ pc = "done"
    /\ runtime = "llm_local"
    /\ ShippedRun
    /\ Len(log) = 2 * Len(StageOrder)

\* C3: a step in which a Runner.run raises, or whose stage result the manager
\* rejects, ends the run with an error, and a run that ended with an error takes
\* no further step: no later stage is invoked
C3_ErrorStopsRun ==
    [][/\ pc # "failed"
       /\ (Len(log') > Len(log) /\ log'[Len(log')][1] = "raise") => pc' = "failed"
       /\ pc' = "failed" => m_result'.raised]_vars

\* the shipped Writer raised after Planner and Search returned, and the run failed
C3_Witness ==
    /\ pc = "failed"
    /\ m_result.raised
    /\ ShippedRun
    /\ Len(log) = 6
    /\ log[6] = <<"raise", "WriterAgent">>

\* C4 (as claimed): with the shipped handlers, once the Writer stage produced a
\* report the run ends by returning that report, whatever the Email stage did
C4_EmailNeverFailsRun ==
    (ShippedRun /\ m_report.t = "ReportData" /\ pc \in {"done", "failed"}) =>
        (pc = "done" /\ ~m_result.raised /\ m_result.val = m_report)

\* C5 (as claimed): the shipped llm_local Planner handler never raises
C5_LlmPlannerNeverRaises ==
    (runtime = "llm_local" /\ registry["PlannerAgent"] = ShippedHandler("PlannerAgent")) =>
        \A i \in 1..Len(log) : log[i] # <<"raise", "PlannerAgent">>

\* C9 (as claimed): the plan of the shipped llm_local Planner has ranks 1..k in
\* list order, priorities that never increase, and no two text queries that are
\* equal up to case
C9_LlmPlanNormalized ==
    (/\ runtime = "llm_local"
     /\ registry["PlannerAgent"] = ShippedHandler("PlannerAgent")
     /\ m_searches.t = "list") =>
        /\ \A i \in 1..Len(m_searches.v) :
               m_searches.v[i].rank.t = "int" /\ m_searches.v[i].rank.v = i
        /\ \A i, j \in 1..Len(m_searches.v) :
               i < j => m_searches.v[i].priority.v >= m_searches.v[j].priority.v
        /\ \A i, j \in 1..Len(m_searches.v) :
               (i < j /\ m_searches.v[i].query.t = "str" /\ m_searches.v[j].query.t = "str")
                   => LowerStr(m_searches.v[i].query.v) # LowerStr(m_searches.v[j].query.v)

(***************************************************************************)
(* One Runner.run on a tool agent, or on an agent no module registered a   *)
(* handler for: every list of up to MaxItems search items or search        *)
(* results, with each outcome of the llm_call the handler may make.        *)
(***************************************************************************)
MaxItems == 2
ItemQueries == {<<"a">>, <<"a", " ", "b">>, <<"A">>}
Snippets == {<<"s">>, <<"#", "#", " ", "s">>}

SearchItems == {WebSearchItem(PyStr(q), None, DEFAULT_PRIORITY, None, None) : q \in ItemQueries}
ResultItems == {SearchResultItem(PyStr(q), PyStr(sn), PyStr(SearchUrl(q))) : q \in ItemQueries, sn \in Snippets}
SearchLists == {PyList(l) : l \in StringsUpTo(MaxItems, SearchItems)}
ResultLists == {PyList(l) : l \in StringsUpTo(MaxItems, ResultItems)}
Reports == {ReportData(PyStr(ReportTitle), md, PyDict(<<>>)) : md \in {PyStr(<<>>), PyStr(<<"m">>), PyInt(1)}}

UnknownAgent == "UnknownAgent"

InitCall ==
    /\ NoLoop
    /\ NoHost
    /\ ret = Return(None)
    /\ phase = "ready"
    /\ runtime \in {"local", "llm_local"}
    /\ \/ agent \in {"PlannerAgent", UnknownAgent} /\ arg \in {PyStr(q) : q \in RunQueries}
       \/ agent = "SearchAgent" /\ arg \in SearchLists
       \/ agent = "SearchAgent" /\ arg \in {WebSearchPlan(l) : l \in SearchLists}
       \/ agent = "WriterAgent" /\ arg \in ResultLists
       \/ agent = "WriterAgent"
          /\ arg \in {PyDict(<< [k |-> K.search_results, val |-> l] >>) : l \in ResultLists}
       \/ agent = "EmailAgent" /\ arg \in Reports
    /\ \/ registry = StartupRegistry
       \/ /\ agent # UnknownAgent
          /\ \E i \in 0..Len(StubReturns) :
                 registry = register_agent_handler(StartupRegistry, agent, StubHandler(i))
    /\ reply \in IF runtime = "llm_local" /\ registry = StartupRegistry /\ agent # UnknownAgent
                 THEN LlmOutcomes ELSE {LlmDown}
    /\ registrations = 0
    /\ pc = "idle"
    /\ m_query = <<>>
    /\ m_searches = None
    /\ m_search_results = None
    /\ m_report = None
    /\ m_result = Return(None)
    /\ log = <<>>
    /\ llm_failures = <<0, 0>>

\* await Runner.run(agent, payload)
Call ==
    /\ phase = "ready"
    /\ \E res \in {Runner_run(runtime, registry, agent, arg, reply)} :
           /\ ret' = res
           /\ log' = log \o RunEvents(registry, agent, res)
    /\ llm_failures' = CountLlm(llm_failures, CallsLlm(runtime, registry, agent, arg), reply)
    /\ phase' = "returned"
    /\ UNCHANGED <<loopVars, hostVars, arg, agent, reply, runtime, registry, registrations, pc, m_query, m_searches,
                   m_search_results, m_report, m_result>>

NextCall == Call

SpecCall == InitCall /\ [][NextCall]_vars

\* the shipped handler of agent name was the one called
Shipped(name) == agent = name /\ registry = StartupRegistry

\* the items of a Search payload: a list of items or a plan
PayloadItems == IF arg.t = "list" THEN arg.v ELSE arg.searches.v

\* the shipped Search handler ran its simulation: always in the local package,
\* in llm_local when llm_call raised or its text did not extract to a list
SimulatedSearchRan ==
    /\ phase = "returned"
    /\ Shipped("SearchAgent")
    /\ runtime = "llm_local" => (reply.raised \/ LlmParsed(reply).val.t # "list")

\* C12: on the simulated path the Search handler returns one SearchResultItem
\* per input item, in input order, each with the query of its item; the empty
\* input gives the empty list
C12_SimulatedSearchOnePerItem ==
    SimulatedSearchRan =>
        /\ ~ret.raised
        /\ ret.val.output.t = "list"
        /\ Len(ret.val.output.v) = Len(PayloadItems)
        /\ \A i \in 1..Len(PayloadItems) :
               /\ ret.val.output.v[i].t = "SearchResultItem"
               /\ ret.val.output.v[i].query = PayloadItems[i].query

\* the llm_local handler fell back on a text that is no list, for two items with
\* different queries
C12_Witness ==
    /\ SimulatedSearchRan
    /\ runtime = "llm_local"
    /\ ~reply.raised
    /\ Len(PayloadItems) = 2
    /\ PayloadItems[1].query # PayloadItems[2].query
    /\ Len(ret.val.output.v) = 2

\* C13 (as claimed): the list the shipped Search handler returns has no more
\* results than the payload has items, and each result's query is the query of
\* one of the items, on the LLM path too
C13_ResultsWithinPlan ==
    (phase = "returned" /\ Shipped("SearchAgent") /\ ~ret.raised) =>
        /\ Len(ret.val.output.v) <= Len(PayloadItems)
        /\ \A i \in 1..Len(ret.val.output.v) :
               \E j \in 1..Len(PayloadItems) : ret.val.output.v[i].query = PayloadItems[j].query

\* C14 (as claimed): the shipped llm_local Search handler never raises
C14_LlmSearchNeverRaises ==
    (phase = "returned" /\ Shipped("SearchAgent") /\ runtime = "llm_local") => ~ret.raised

\* the text of llm_call extracted to a mapping with a non-empty status
StatusGiven ==
    /\ ~reply.raised
    /\ LlmParsed(reply).val.t = "dict"
    /\ Truthy(DictGet(LlmParsed(reply).val.v, K.status, None))

\* C15 (as claimed): the shipped llm_local Email handler, given a report with a
\* str markdown, returns the status of the mapping the LLM's text extracts to
\* when that status is non-empty, whether or not the mapping has a subject and
\* a body, and "email_sent" in every other case
C15_EmailReturnsStatus ==
    (/\ phase = "returned" /\ Shipped("EmailAgent") /\ runtime = "llm_local"
     /\ arg.markdown_report.t = "str") =>
        /\ ~ret.raised
        /\ ret.val.output = IF StatusGiven THEN DictGet(LlmParsed(reply).val.v, K.status, None)
                            ELSE PyStr(EmailSent)

\* C16 (as claimed): when llm_call fails or its text extracts to no mapping, the
\* shipped llm_local Writer handler returns the report of _simulated_writer for
\* every list of search results, empty or not
C16_WriterFallbackReport ==
    (/\ phase = "returned" /\ Shipped("WriterAgent") /\ runtime = "llm_local"
     /\ (reply.raised \/ LlmParsed(reply).val.t # "dict")) =>
        /\ ~ret.raised
        /\ ret.val.output.t = "ReportData"
        /\ ret.val.output.title = PyStr(ReportTitle)

\* text.split("\n"): the lines of a markdown text
Lines(text) ==
    LET breaks == {i \in 1..Len(text) : text[i] = "\n"}
        starts == {1} \cup {i + 1 : i \in breaks}
        LineAt(a) == LET later == {j \in breaks : j >= a}
                     IN SubSeq(text, a, IF later = {} THEN Len(text)
                                        ELSE (CHOOSE j \in later : \A k \in later : j <= k) - 1)
    IN [n \in 1..Cardinality(starts) |->
           LineAt(CHOOSE a \in starts : Cardinality({c \in starts : c < a}) = n - 1)]

\* the lines of a markdown text that open a result section, in order
SectionLines(text) ==
    SelectSeq(Lines(text),
              LAMBDA l : StartsWithAt(l, 1, <<"#", "#", " ", "R", "e", "s", "u", "l", "t", " ">>))

\* the search results of a Writer payload: a list or {"search_results": list}
PayloadResults == IF arg.t = "list" THEN arg.v ELSE DictGet(arg.v, K.search_results, None).v

\* C17: for every list of search results, the empty one included, the local
\* Writer handler returns a ReportData titled "Research Report" whose markdown
\* holds the title and one "## Result i: <query>" heading per result, numbered
\* 1..n in input order, and whose metadata is {"count": n}
C17_LocalWriterSections ==
    (phase = "returned" /\ Shipped("WriterAgent") /\ runtime = "local") =>
        /\ ~ret.raised
        /\ ret.val.output.t = "ReportData"
        /\ ret.val.output.title = PyStr(ReportTitle)
        /\ ret.val.output.markdown_report.t = "str"
        /\ Contains(ret.val.output.markdown_report.v, ReportTitle)
        /\ Len(SectionLines(ret.val.output.markdown_report.v)) = Len(PayloadResults)
        /\ \A i \in 1..Len(PayloadResults) :
               SectionLines(ret.val.output.markdown_report.v)[i]
                   = <<"#", "#", " ", "R", "e", "s", "u", "l", "t", " ">> \o NatStr(i) \o <<":", " ">>
                         \o PayloadResults[i].query.v
        /\ ret.val.output.metadata = PyDict(<< [k |-> K.count, val |-> PyInt(Len(PayloadResults))] >>)

\* two results with different queries, one of them with a snippet that is
\* itself a "##" line, gave a report with two result sections
C17_Witness ==
    /\ phase = "returned"
    /\ Shipped("WriterAgent")
    /\ runtime = "local"
    /\ Len(PayloadResults) = 2
    /\ PayloadResults[1].query # PayloadResults[2].query
    /\ PayloadResults[1].snippet.v = <<"#", "#", " ", "s">>
    /\ ~ret.raised
    /\ Len(SectionLines(ret.val.output.markdown_report.v)) = 2

\* the number held under "count" in the metadata of a report
CountOf(report) == DictGet(report.metadata.v, K.count, None)

\* C18: in the local package with the shipped handlers no run fails, and a run
\* that is done returned a ReportData in which the number of result sections,
\* the number of search results, the number of planned items and the metadata
\* count are one number
C18_LocalRunCountsAgree ==
    (runtime = "local" /\ ShippedRun) =>
        /\ pc # "failed"
        /\ pc = "done" =>
               /\ ~m_result.raised
               /\ m_result.val.t = "ReportData"
               /\ m_result.val.markdown_report.t = "str"
               /\ Len(SectionLines(m_result.val.markdown_report.v)) = Len(m_search_results.v)
               /\ Len(m_search_results.v) = Len(m_searches.v)
               /\ CountOf(m_result.val) = PyInt(Len(m_searches.v))

\* a local run is done with two or more planned items
C18_Witness ==
    /\ runtime = "local"
    /\ ShippedRun
    /\ pc = "done"
    /\ Len(m_searches.v) >= 2
    /\ Len(SectionLines(m_result.val.markdown_report.v)) = Len(m_searches.v)

\* C19 (as claimed): the report the manager holds after the Writer stage, be it
\* the ReportData the Writer handler returned or the one the manager made of a
\* mapping, and the report a run returns, have a mapping as metadata, never None
C19_MetadataNeverNull ==
    /\ m_report.t = "ReportData" => m_report.metadata.t = "dict"
    /\ (pc = "done" /\ m_result.val.t = "ReportData") => m_result.val.metadata.t = "dict"

\* C20: Runner.run on an agent with no registered handler raises the
\* "No handler registered" RuntimeError and invokes no handler; on an agent
\* with a registered handler it invokes that name's handler once, with the
\* given payload, and returns its value in a RunnerResult (an exception of the
\* handler propagates); in both cases the registry is left as it was
C20_RunnerDispatch ==
    /\ [](phase = "returned" =>
            /\ agent \notin DOMAIN registry =>
                   /\ ret = Raise("RuntimeError")
                   /\ log = << <<"raise", agent>> >>
                   /\ llm_failures = <<0, 0>>
            /\ agent \in DOMAIN registry =>
                   /\ Len(log) = 2
                   /\ log[1] = <<"call", agent>>
                   /\ ~ret.raised => ret.val.t = "RunnerResult"
                   /\ ~ret.raised =>
                          ret.val.output = CallHandler(runtime, registry[agent], arg, reply).val
                   /\ ret.raised = CallHandler(runtime, registry[agent], arg, reply).raised
                   /\ (registry[agent].fn = "stub" /\ registry[agent].stub > 0) =>
                          (~ret.raised /\ ret.val.output = StubReturns[registry[agent].stub]))
    /\ [][registry' = registry]_vars

\* Runner.run was called on an agent no handler is registered for, and raised
C20_Witness ==
    /\ phase = "returned"
    /\ agent \notin DOMAIN registry
    /\ ret.raised
    /\ ret.exc = "RuntimeError"

(***************************************************************************)
(* Runner.run calls that share one event loop.  Each task awaits one       *)
(* Runner.run(agent, payload, timeout); its handler is a coroutine         *)
(* function that awaits once, for `work` ticks, or a plain function that   *)
(* computes for `work` ticks.  The loop runs one callback at a time and    *)
(* runs what is due, timers in the order of their due times, before time   *)
(* passes.                                                                 *)
(***************************************************************************)
MaxWork == 2
MaxTimeout == 2
MaxClock == 5
NoTimeout == 0 - 1
TaskIds == {1, 2}

\* a task that has not entered Runner.run yet
NewTask(coroutine, timeout, work, fails) ==
    [coroutine |-> coroutine, timeout |-> timeout, work |-> work, fails |-> fails,
     st |-> "pending", started |-> 0, finished |-> 0 - 1, cancelled |-> FALSE,
     result |-> Return(None)]

InitLoop ==
    /\ NoCall
    /\ runtime \in {"local", "llm_local"}
    /\ registry = StartupRegistry
    /\ registrations = 0
    /\ pc = "idle"
    /\ m_query = <<>>
    /\ m_searches = None
    /\ m_search_results = None
    /\ m_report = None
    /\ m_result = Return(None)
    /\ log = <<>>
    /\ llm_failures = <<0, 0>>
    /\ clock = 0
    /\ NoHost
    /\ tasks \in [TaskIds -> {NewTask(c, tm, w, f) : c \in BOOLEAN, tm \in {NoTimeout} \cup 0..MaxTimeout,
                                                     w \in 0..MaxWork, f \in BOOLEAN}]

\* a plain handler is executing on the thread of the event loop
LoopBusy == \E t \in TaskIds : tasks[t].st = "inline"

\* what the handler of a task returns or raises when it runs to its end
HandlerOutcome(task) == IF task.fails THEN Raise("HandlerError") ELSE Return(PyStr(<<"o", "u", "t">>))

\* the task with its handler ended at the present time and Runner.run over
Ended(task, outcome) ==
    [task EXCEPT !.st = "done", !.finished = clock, !.result = RunnerOutcome(outcome)]

\* Runner.run up to its first suspension: the branch on iscoroutinefunction
Enter(t) ==
    /\ tasks[t].st = "pending"
    /\ ~LoopBusy
    /\ tasks' = [tasks EXCEPT ![t] =
           IF tasks[t].coroutine
           THEN IF tasks[t].timeout = 0
                THEN [@ EXCEPT !.st = "done", !.started = clock, !.cancelled = TRUE,
                               !.result = Raise("TimeoutError")]
                ELSE [@ EXCEPT !.st = "awaiting", !.started = clock]
           ELSE [@ EXCEPT !.st = IF runtime = "local" THEN "inline" ELSE "in_thread",
                          !.started = clock]]
    /\ UNCHANGED <<callVars, runVars, hostVars, clock>>

\* the awaited handler is resumed, runs to its end, and wait_for returns
Resume(t) ==
    /\ tasks[t].st = "awaiting"
    /\ ~LoopBusy
    /\ clock >= tasks[t].started + tasks[t].work
    /\ tasks[t].timeout = NoTimeout \/ tasks[t].work <= tasks[t].timeout
    /\ tasks' = [tasks EXCEPT ![t] = Ended(@, HandlerOutcome(@))]
    /\ UNCHANGED <<callVars, runVars, hostVars, clock>>

\* the timer of wait_for fires: the handler is cancelled, TimeoutError is raised
Expire(t) ==
    /\ tasks[t].st = "awaiting"
    /\ ~LoopBusy
    /\ tasks[t].timeout # NoTimeout
    /\ clock >= tasks[t].started + tasks[t].timeout
    /\ tasks[t].timeout <= tasks[t].work
    /\ tasks' = [tasks EXCEPT ![t] = [@ EXCEPT !.st = "done", !.cancelled = TRUE,
                                                 !.result = Raise("TimeoutError")]]
    /\ UNCHANGED <<callVars, runVars, hostVars, clock>>

\* out = handler(agent, payload) returns on the thread of the loop (local)
FinishInline(t) ==
    /\ tasks[t].st = "inline"
    /\ clock >= tasks[t].started + tasks[t].work
    /\ tasks' = [tasks EXCEPT ![t] = Ended(@, HandlerOutcome(@))]
    /\ UNCHANGED <<callVars, runVars, hostVars, clock>>

\* await asyncio.to_thread(...) returns once the worker thread is done (llm_local)
ThreadDone(t) ==
    /\ tasks[t].st = "in_thread"
    /\ ~LoopBusy
    /\ clock >= tasks[t].started + tasks[t].work
    /\ tasks' = [tasks EXCEPT ![t] = Ended(@, HandlerOutcome(@))]
    /\ UNCHANGED <<callVars, runVars, hostVars, clock>>

\* task t has a step the loop can run now
CanStep(t) ==
    \/ tasks[t].st = "inline" /\ clock >= tasks[t].started + tasks[t].work
    \/ /\ ~LoopBusy
       /\ \/ tasks[t].st = "pending"
          \/ tasks[t].st \in {"awaiting", "in_thread"} /\ clock >= tasks[t].started + tasks[t].work
          \/ /\ tasks[t].st = "awaiting" /\ tasks[t].timeout # NoTimeout
             /\ clock >= tasks[t].started + tasks[t].timeout

\* time passes when the loop has nothing it can run
Tick ==
    /\ clock < MaxClock
    /\ \A t \in TaskIds : ~CanStep(t)
    /\ \E t \in TaskIds : tasks[t].st # "done"
    /\ clock' = clock + 1
    /\ UNCHANGED <<callVars, runVars, hostVars, tasks>>

NextLoop ==
    \/ \E t \in TaskIds : Enter(t)
    \/ \E t \in TaskIds : Resume(t)
    \/ \E t \in TaskIds : Expire(t)
    \/ \E t \in TaskIds : FinishInline(t)
    \/ \E t \in TaskIds : ThreadDone(t)
    \/ Tick

SpecLoop == InitLoop /\ [][NextLoop]_vars

\* the deadline of the wait_for of a task that was given a timeout
Deadline(task) == task.started + task.timeout

\* Runner.run of task t is over, its handler a coroutine function, a timeout given
TimedRunOver(t) ==
    tasks[t].st = "done" /\ tasks[t].coroutine /\ tasks[t].timeout # NoTimeout

\* C21 (as claimed): when a Runner.run with a timeout on a coroutine handler is
\* over, a handler that ended before the deadline gave its RunnerResult (or its
\* own exception), and a handler that had not ended by the deadline was
\* cancelled and Runner.run raised TimeoutError
C21_TimeoutCancelsLateHandler ==
    \A t \in TaskIds : TimedRunOver(t) =>
        /\ (tasks[t].finished >= 0 /\ tasks[t].finished < Deadline(tasks[t])) =>
               (~tasks[t].cancelled /\ tasks[t].result = RunnerOutcome(HandlerOutcome(tasks[t])))
        /\ (tasks[t].finished < 0 \/ tasks[t].finished > Deadline(tasks[t])) =>
               (tasks[t].cancelled /\ tasks[t].result = Raise("TimeoutError"))

\* task t has a step that is due: entering Runner.run, the wake-up of its
\* handler or of its worker thread, or the timer of its wait_for
Due(t) ==
    \/ tasks[t].st = "pending"
    \/ tasks[t].st \in {"awaiting", "in_thread"} /\ clock >= tasks[t].started + tasks[t].work
    \/ /\ tasks[t].st = "awaiting" /\ tasks[t].timeout # NoTimeout
       /\ clock >= tasks[t].started + tasks[t].timeout

\* C22 (as claimed): in both packages, while the plain handler of one task is
\* executing, every other task whose step is due can take it
C22_BlockingHandlerOffLoop ==
    \A t1, t2 \in TaskIds :
        (t1 # t2 /\ tasks[t1].st \in {"inline", "in_thread"} /\ Due(t2)) => CanStep(t2)

(***************************************************************************)
(* agents.py: RunnerResult.final_output_as, on its own                     *)
(***************************************************************************)
CoerceTypes == {"WebSearchPlan", "WebSearchItem", "SearchResultItem", "ReportData", "dict", "str"}

\* SearchResultItem(**d) and WebSearchPlan(**d) for a dict d
SearchResultItemFromDict(d) ==
    IF /\ \A k \in {K.query, K.snippet, K.url} : HasKey(d.v, k)
       /\ \A i \in 1..Len(d.v) : d.v[i].k \in {K.query, K.snippet, K.url}
    THEN Return(SearchResultItem(DictGet(d.v, K.query, None), DictGet(d.v, K.snippet, None),
                                 DictGet(d.v, K.url, None)))
    ELSE Raise("TypeError")

WebSearchPlanFromDict(d) ==
    IF HasKey(d.v, K.searches) /\ \A i \in 1..Len(d.v) : d.v[i].k = K.searches
    THEN Return(WebSearchPlan(DictGet(d.v, K.searches, None)))
    ELSE Raise("TypeError")

\* typ(**d) for a dict d, none of whose keys is a parameter of str()
Construct(typ, d) ==
    CASE typ = "ReportData" -> ReportDataFromDict(d)
      [] typ = "WebSearchItem" -> WebSearchItemFromDict(d)
      [] typ = "SearchResultItem" -> SearchResultItemFromDict(d)
      [] typ = "WebSearchPlan" -> WebSearchPlanFromDict(d)
      [] typ = "str" -> IF d.v = <<>> THEN Return(PyStr(<<>>)) ELSE Raise("TypeError")

\* try: return typ(**self.output)  except Exception as e: raise RuntimeError(...)
CoerceOutcome(made) == IF made.raised THEN Raise("RuntimeError") ELSE made

\* final_output_as with its first test left out
FinalOutputAsNoInstanceTest(output, typ) ==
    IF output.t = "dict" /\ typ # "dict" THEN CoerceOutcome(Construct(typ, output))
    ELSE Raise("RuntimeError")

\* RunnerResult(output).final_output_as(typ)
final_output_as(output, typ) ==
    IF output.t = typ THEN Return(output)
    ELSE IF output.t = "dict" THEN CoerceOutcome(Construct(typ, output))
    ELSE Raise("RuntimeError")

\* the constructions final_output_as attempts, in order
ConstructAttempts(output, typ) ==
    IF output.t # typ /\ output.t = "dict" THEN << <<"construct", typ>> >> ELSE <<>>

StrT == PyStr(<<"t">>)
StrM == PyStr(<<"m">>)
StrA == PyStr(<<"a">>)

CoerceOutputs ==
    << None, StrA, PyInt(1), PyList(<<>>), PyDict(<<>>),
       PyDict(<< [k |-> K.searches, val |-> PyList(<<>>)] >>),
       PyDict(<< [k |-> K.title, val |-> StrT], [k |-> K.markdown_report, val |-> StrM] >>),
       PyDict(<< [k |-> K.markdown_report, val |-> StrM] >>),
       PyDict(<< [k |-> K.title, val |-> StrT], [k |-> K.markdown_report, val |-> StrM],
                 [k |-> K.metadata, val |-> PyDict(<<>>)] >>),
       PyDict(<< [k |-> K.title, val |-> StrT], [k |-> K.markdown_report, val |-> StrM],
                 [k |-> K.status, val |-> StrA] >>),
       PyDict(<< [k |-> K.query, val |-> StrA] >>),
       PyDict(<< [k |-> K.query, val |-> StrA], [k |-> K.snippet, val |-> StrM],
                 [k |-> K.url, val |-> StrT] >>),
       WebSearchPlan(PyList(<<>>)),
       WebSearchItem(StrA, None, DEFAULT_PRIORITY, None, None),
       SearchResultItem(StrA, StrM, StrT),
       ReportData(StrT, StrM, None) >>

InitCoerce ==
    /\ NoRun
    /\ NoLoop
    /\ NoHost
    /\ \E i \in 1..Len(CoerceOutputs) : \E typ \in CoerceTypes :
           arg = [output |-> CoerceOutputs[i], typ |-> typ]
    /\ ret = Return(None)
    /\ phase = "ready"
    /\ agent = ""
    /\ reply = Return(None)

\* RunnerResult(arg.output).final_output_as(arg.typ)
Coerce ==
    /\ phase = "ready"
    /\ ret' = final_output_as(arg.output, arg.typ)
    /\ log' = log \o ConstructAttempts(arg.output, arg.typ)
    /\ phase' = "returned"
    /\ UNCHANGED <<arg, agent, reply, loopVars, hostVars, runtime, registry, registrations, pc, m_query,
                   m_searches, m_search_results, m_report, m_result, llm_failures>>

NextCoerce == Coerce

SpecCoerce == InitCoerce /\ [][NextCoerce]_vars

\* C23: final_output_as(Type) returns the wrapped value itself when it is of
\* Type; for a dict it makes one construction Type(**dict) and returns what
\* was built, or raises the RuntimeError of a failed conversion when the
\* construction raises; for any other value it raises that error with no
\* construction; the wrapped output is never changed
C23_FinalOutputAs ==
    /\ [](phase = "returned" =>
            /\ arg.output.t = arg.typ =>
                   (~ret.raised /\ ret.val = arg.output /\ log = <<>>)
            /\ (arg.output.t # arg.typ /\ arg.output.t = "dict") =>
                   /\ log = << <<"construct", arg.typ>> >>
                   /\ ret.raised => ret.exc = "RuntimeError"
                   /\ ~ret.raised => ret.val.t = arg.typ
                   /\ ret.raised = Construct(arg.typ, arg.output).raised
            /\ (arg.output.t # arg.typ /\ arg.output.t # "dict") =>
                   (ret.raised /\ ret.exc = "RuntimeError" /\ log = <<>>))
    /\ [][arg' = arg]_vars

\* a dict with markdown_report and no title was asked as a ReportData: the one
\* construction raised and the conversion failed
C23_Witness ==
    /\ phase = "returned"
    /\ arg.typ = "ReportData"
    /\ arg.output.t = "dict"
    /\ HasKey(arg.output.v, K.markdown_report)
    /\ ~HasKey(arg.output.v, K.title)
    /\ log = << <<"construct", "ReportData">> >>
    /\ ret.raised

(***************************************************************************)
(* agents.py: a sequence of register_agent_handler calls, then Runner.run  *)
(***************************************************************************)
MaxHistory == 3

RegistryNames == {"PlannerAgent", "SearchAgent", UnknownAgent}
OtherHandlers == {StubHandler(0), StubHandler(1), StubHandler(5)}

InitRegistry ==
    /\ NoLoop
    /\ NoHost
    /\ ret = Return(None)
    /\ phase = "ready"
    /\ runtime \in {"local", "llm_local"}
    /\ \/ agent \in {"PlannerAgent", UnknownAgent} /\ arg = PyStr(<<"a">>)
       \/ agent = "SearchAgent" /\ arg = PyList(<<>>)
    /\ reply = LlmDown
    /\ registry = StartupRegistry
    /\ registrations = 0
    /\ pc = "idle"
    /\ m_query = <<>>
    /\ m_searches = None
    /\ m_search_results = None
    /\ m_report = None
    /\ m_result = Return(None)
    /\ log = <<>>
    /\ llm_failures = <<0, 0>>

\* register_agent_handler(Agent(name), handler)
RegisterHandler ==
    /\ phase = "ready"
    /\ registrations < MaxHistory
    /\ \E name \in RegistryNames, handler \in OtherHandlers :
           /\ registry' = register_agent_handler(registry, name, handler)
           /\ log' = Append(log, <<"register", name, handler>>)
    /\ registrations' = registrations + 1
    /\ UNCHANGED <<callVars, loopVars, hostVars, runtime, pc, m_query, m_searches, m_search_results, m_report,
                   m_result, llm_failures>>

NextRegistry == RegisterHandler \/ Call

SpecRegistry == InitRegistry /\ [][NextRegistry]_vars

\* the registrations of a name so far, by position in the log, and the handler
\* in force for it: the latest of them, or the one its module registered
RegisteredAt(name) == {i \in 1..Len(log) : log[i][1] = "register" /\ log[i][2] = name}

InForce(name) ==
    IF RegisteredAt(name) # {}
    THEN {log[CHOOSE i \in RegisteredAt(name) : \A j \in RegisteredAt(name) : j <= i][3]}
    ELSE IF name \in AgentNames THEN {ShippedHandler(name)} ELSE {}

SameOutcome(a, b) ==
    /\ a.raised = b.raised
    /\ a.exc = b.exc
    /\ ~a.raised => (a.val.output.t = b.val.output.t /\ a.val.output = b.val.output)

\* C24: Runner.run invokes, for a name, the handler most recently registered
\* under it (and fails as unregistered when there is none); a registration
\* leaves the handlers of all other names as they were, and no step removes
\* a registered name
C24_LatestRegistrationWins ==
    /\ [](phase = "returned" =>
            /\ InForce(agent) = {} => (ret.raised /\ ret.exc = "RuntimeError" /\ Len(log) = registrations + 1)
            /\ \A handler \in InForce(agent) :
                   SameOutcome(ret, RunnerOutcome(CallHandler(runtime, handler, arg, reply))))
    /\ [][/\ \A n \in DOMAIN registry : n \in DOMAIN registry'
          /\ registrations' # registrations =>
                 \A n \in DOMAIN registry : n # log'[Len(log')][2] => registry'[n] = registry[n]
          /\ registrations' = registrations => registry' = registry]_vars

\* the called name was registered twice with different handlers, another name
\* in between, and the call ran the later one
C24_Witness ==
    /\ phase = "returned"
    /\ agent = "PlannerAgent"
    /\ registrations = 3
    /\ log[1] = <<"register", "PlannerAgent", StubHandler(5)>>
    /\ log[2][2] = "SearchAgent"
    /\ log[3] = <<"register", "PlannerAgent", StubHandler(1)>>
    /\ ~ret.raised
    /\ ret.val.output = None

(***************************************************************************)
(* manager_agent.py: several Manager runs on one event loop.  Each run is  *)
(* a coroutine of _manager_handler with its own locals; a run is suspended *)
(* while a tool handler awaits llm_call, and the other run may step then.  *)
(***************************************************************************)
ConcurrentQueries == { <<"a">>, <<"a", ",", "A">> }

PlanReply == Return(PyStr(<<"{", "\"", "s", "e", "a", "r", "c", "h", "e", "s", "\"", ":", "[", "{", "\"", "q", "u", "e", "r", "y", "\"", ":", "\"", "a", "\"", "}", "]", "}">>))
ReportReply == Return(PyStr(<<"{", "\"", "t", "i", "t", "l", "e", "\"", ":", "\"", "t", "\"", ",", "\"", "m", "a", "r", "k", "d", "o", "w", "n", "_", "r", "e", "p", "o", "r", "t", "\"", ":", "\"", "m", "\"", "}">>))
ConcurrentLlm == {LlmDown, PlanReply, ReportReply}

\* the locals of _manager_handler when it has read its query
StartedRun(query) ==
    [pc |-> "planning", query |-> query, searches |-> None, search_results |-> None,
     report |-> None, result |-> Return(None)]

\* the locals of a run after a stage whose outcome is out
Advance(run, out, next, local) ==
    IF out.raised THEN [run EXCEPT !.pc = "failed", !.result = out]
    ELSE [run EXCEPT !.pc = next, ![local] = out.val]

PlanLen(rt, got) == IF got.raised THEN got ELSE LenPrinted(rt, got.val)
AfterPlanner(rt, res) == IF res.raised THEN res ELSE PlanLen(rt, PlanSearches(rt, res.val.output))
AfterSearch(rt, res) == IF res.raised THEN res ELSE LenPrinted(rt, res.val.output)
AfterWriter(res) == IF res.raised THEN res ELSE WriterReport(res.val.output)
AfterEmail(run, res) ==
    IF res.raised THEN [run EXCEPT !.pc = "failed", !.result = res]
    ELSE [run EXCEPT !.pc = "done", !.result = Return(run.report)]

\* the tool agent a run calls at its stage, and the payload it passes
StageAgent(run) ==
    CASE run.pc = "planning" -> "PlannerAgent"
      [] run.pc = "searching" -> "SearchAgent"
      [] run.pc = "writing" -> "WriterAgent"
      [] run.pc = "emailing" -> "EmailAgent"

StagePayload(run) ==
    CASE run.pc = "planning" -> PyStr(run.query)
      [] run.pc = "searching" -> run.searches
      [] run.pc = "writing" -> WriterPayload(run.search_results)
      [] run.pc = "emailing" -> run.report

\* one stage of _manager_handler: the Runner.run of the stage, whose handler
\* gets llm from llm_call, and the handling of its output
ManagerStage(rt, reg, run, llm) ==
    CASE run.pc = "planning" ->
            Advance(run, AfterPlanner(rt, Runner_run(rt, reg, "PlannerAgent", StagePayload(run), llm)),
                    "searching", "searches")
      [] run.pc = "searching" ->
            Advance(run, AfterSearch(rt, Runner_run(rt, reg, "SearchAgent", StagePayload(run), llm)),
                    "writing", "search_results")
      [] run.pc = "writing" ->
            Advance(run, AfterWriter(Runner_run(rt, reg, "WriterAgent", StagePayload(run), llm)),
                    "emailing", "report")
      [] run.pc = "emailing" ->
            AfterEmail(run, Runner_run(rt, reg, "EmailAgent", StagePayload(run), llm))

Running(run) == run.pc \in {"planning", "searching", "writing", "emailing"}

\* the locals a stage of run t works on: another run's frame, and the frame of t
FirstFrame(ts, t) == ts[1].run
OwnFrame(ts, t) == ts[t].run

InitConcurrent ==
    /\ NoCall
    /\ clock = 0
    /\ NoHost
    /\ runtime \in {"local", "llm_local"}
    /\ registry = StartupRegistry
    /\ registrations = 0
    /\ pc = "idle"
    /\ m_query = <<>>
    /\ m_searches = None
    /\ m_search_results = None
    /\ m_report = None
    /\ m_result = Return(None)
    /\ log = <<>>
    /\ llm_failures = <<0, 0>>
    /\ tasks \in [TaskIds -> {[run |-> StartedRun(q), awaiting |-> FALSE, replies |-> <<>>] :
                                 q \in ConcurrentQueries}]

\* run t calls the tool of its stage, whose handler awaits llm_call: t is suspended
AwaitLlm(t) ==
    /\ Running(tasks[t].run)
    /\ ~tasks[t].awaiting
    /\ CallsLlm(runtime, registry, StageAgent(tasks[t].run), StagePayload(tasks[t].run))
    /\ tasks' = [tasks EXCEPT ![t].awaiting = TRUE]
    /\ UNCHANGED <<callVars, runVars, hostVars, clock>>

\* llm_call returns or raises in the handler run t waits for, and t goes on to its next await
LlmReturns(t) ==
    /\ tasks[t].awaiting
    /\ \E llm \in ConcurrentLlm :
           tasks' = [tasks EXCEPT ![t] = [run |-> ManagerStage(runtime, registry, OwnFrame(tasks, t), llm),
                                          awaiting |-> FALSE,
                                          replies |-> Append(tasks[t].replies, llm)]]
    /\ UNCHANGED <<callVars, runVars, hostVars, clock>>

\* run t calls the tool of its stage, whose handler makes no llm_call
StageWithoutLlm(t) ==
    /\ Running(tasks[t].run)
    /\ ~tasks[t].awaiting
    /\ ~CallsLlm(runtime, registry, StageAgent(tasks[t].run), StagePayload(tasks[t].run))
    /\ tasks' = [tasks EXCEPT ![t] = [run |-> ManagerStage(runtime, registry, OwnFrame(tasks, t), LlmDown),
                                      awaiting |-> FALSE,
                                      replies |-> Append(tasks[t].replies, LlmDown)]]
    /\ UNCHANGED <<callVars, runVars, hostVars, clock>>

NextConcurrent == \E t \in TaskIds : AwaitLlm(t) \/ LlmReturns(t) \/ StageWithoutLlm(t)

SpecConcurrent == InitConcurrent /\ [][NextConcurrent]_vars

\* the locals of a run of query that is alone on the loop and has got replies
RECURSIVE Alone(_, _, _)
Alone(rt, query, replies) ==
    IF replies = <<>> THEN StartedRun(query)
    ELSE ManagerStage(rt, StartupRegistry, Alone(rt, query, SubSeq(replies, 1, Len(replies) - 1)),
                      replies[Len(replies)])

SameFrame(a, b) ==
    /\ a.pc = b.pc
    /\ a.query = b.query
    /\ a.searches.t = b.searches.t
    /\ a.searches = b.searches
    /\ a.search_results.t = b.search_results.t
    /\ a.search_results = b.search_results
    /\ a.report.t = b.report.t
    /\ a.report = b.report
    /\ a.result.raised = b.result.raised
    /\ a.result.exc = b.result.exc
    /\ a.result.val.t = b.result.val.t
    /\ a.result.val = b.result.val

\* C25: under every interleaving of concurrent Manager runs the handler
\* registry stays as it was, and the plan, the search results and the report
\* or error of each run are those of a run alone with the same query and the
\* same llm_call outcomes, whatever the other run holds; a step of one run
\* leaves the other run as it was
C25_RunsIndependent ==
    /\ [](\A t \in TaskIds :
             SameFrame(tasks[t].run, Alone(runtime, tasks[t].run.query, tasks[t].replies)))
    /\ [][/\ registry' = registry
          /\ \A t \in TaskIds : tasks'[t] # tasks[t] => \A u \in TaskIds \ {t} : tasks'[u] = tasks[u]]_vars

\* the second run went through all its stages and returned its report, got
\* from the Writer's llm_call, while the first run, of another query, was
\* suspended in its Planner stage
C25_Witness ==
    /\ runtime = "llm_local"
    /\ tasks[1].run.pc = "planning"
    /\ tasks[1].awaiting
    /\ tasks[2].run.pc = "done"
    /\ tasks[2].run.query # tasks[1].run.query
    /\ tasks[2].replies[3] = ReportReply
    /\ ~tasks[2].run.result.raised
    /\ tasks[2].run.result.val.t = "ReportData"

(***************************************************************************)
(* manager_agent.py: the Writing stage of a Manager run                    *)
(***************************************************************************)
\* the Writer was the last tool agent the run called, and it returned
WriterReturnedLast == log # <<>> /\ log[Len(log)] = <<"return", "WriterAgent">>

EmailInvoked == \E i \in 1..Len(log) : log[i] = <<"call", "EmailAgent">>

\* C26: when the Writer has returned, the run goes on to the Email stage with
\* a ReportData (the Writer's own, or the one coerced from a mapping that
\* contains markdown_report), and in every other case, a mapping with
\* markdown_report that cannot be made a ReportData included, the run fails
\* with the RuntimeError "Writer did not return a ReportData" and the Email
\* agent is not invoked
C26_WriterStageError ==
    WriterReturnedLast =>
        /\ pc \in {"emailing", "failed"}
        /\ pc = "emailing" => m_report.t = "ReportData"
        /\ pc = "failed" =>
               (m_result.raised /\ m_result.exc = "RuntimeError" /\ ~EmailInvoked)

(***************************************************************************)
(* local/planner_agent.py: the target count of the local Planner           *)
(***************************************************************************)
\* the question words of the claimed signal
NamedQuestionWords ==
    { <<"w", "h", "a", "t">>, <<"h", "o", "w">>, <<"w", "h", "y">>, <<"w", "h", "e", "n">>,
      <<"w", "h", "e", "r", "e">>, <<"w", "h", "i", "c", "h">>, <<"w", "h", "o">>,
      <<"d", "o", "e", "s">>, <<"i", "s">>, <<"a", "r", "e">>, <<"c", "a", "n">>,
      <<"s", "h", "o", "u", "l", "d">>, <<"w", "o", "u", "l", "d">> }

Signal(present) == IF present THEN 1 ELSE 0

\* 1 plus the number of the four claimed signals present in the stripped query q
SignalCount(q) ==
    1 + Signal(Len(Split(q)) >= 8)
      + Signal(\E i \in 1..Len(q) : q[i] \in {"?", ",", ";", ":", "-"})
      + Signal(\E w \in NamedQuestionWords : Contains(LowerStr(q), w))
      + Signal(Contains(q, <<",">>) \/ Contains(q, <<"/">>) \/ CountWordAnd(LowerStr(q)) >= 1)

Clamp(n, lo, hi) == IF n < lo THEN lo ELSE IF n > hi THEN hi ELSE n

\* C27: the target count of a query is 1 plus the number of signals present
\* (8 or more words; a delimiter among ? , ; : -; one of the question words
\* what, how, why, when, where, which, who, does, is, are, can, should, would
\* in the query; a comma, a slash or the word "and"), clamped to 1..6, and the
\* minimum for an empty or whitespace-only query
C27_SearchCountSignals ==
    phase = "returned" =>
        determine_search_count(arg, MIN_SEARCHES, MAX_SEARCHES) =
            IF Strip(arg, Whitespace) = <<>> THEN MIN_SEARCHES
            ELSE Clamp(SignalCount(Strip(arg, Whitespace)), MIN_SEARCHES, MAX_SEARCHES)

(***************************************************************************)
(* local/planner_agent.py: the truncation to the target count              *)
(***************************************************************************)
TargetCount == determine_search_count(arg, MIN_SEARCHES, MAX_SEARCHES)

\* the generated candidates after the deduplication, before the sort
Deduplicated(items) == RefineFrom(items, 1, {}, <<>>)

\* the candidates with priorities that differ and rise along the list
Reprioritised(items) == [i \in 1..Len(items) |-> [items[i] EXCEPT !.priority = PyFloat(250 * (i % 4))]]

\* kept is at most n of the deduplicated items, all of them when they are at
\* most n, and no item left out has a higher priority than an item of kept
KeepsBest(kept, items, n) ==
    /\ Len(kept) = (IF Len(Deduplicated(items)) < n THEN Len(Deduplicated(items)) ELSE n)
    /\ \A k \in 1..Len(kept) : \E d \in 1..Len(Deduplicated(items)) : Deduplicated(items)[d] = kept[k]
    /\ \A d \in 1..Len(Deduplicated(items)) :
           (\A k \in 1..Len(kept) : kept[k] # Deduplicated(items)[d]) =>
               \A k \in 1..Len(kept) : Deduplicated(items)[d].priority.v <= kept[k].priority.v

\* a planned item as validate_and_refine_searches returned it, before it got its rank
Unranked(items) == [i \in 1..Len(items) |-> [items[i] EXCEPT !.rank = None]]

\* C28: the plan of the local Planner has at most n = determine_search_count(query)
\* items, the first n of the deduplicated candidates in priority order, so that
\* no candidate cut off has a higher priority than one that is kept; the same
\* holds of validate_and_refine_searches when the priorities differ
C28_TruncationKeepsBest ==
    phase = "returned" =>
        /\ Len(Planned) <= TargetCount
        /\ Unranked(Planned) = Take(SortByPriority(Deduplicated(Generated)), TargetCount)
        /\ KeepsBest(Unranked(Planned), Generated, TargetCount)
        /\ KeepsBest(validate_and_refine_searches(Reprioritised(Generated), TargetCount),
                     Reprioritised(Generated), TargetCount)

\* the query gave more deduplicated candidates than its target count, and the
\* plan has exactly the target count of items
C28_Witness ==
    /\ phase = "returned"
    /\ Len(Deduplicated(Generated)) > TargetCount
    /\ Len(Planned) = TargetCount
    /\ TargetCount >= 2

(***************************************************************************)
(* src/6_mcp/mcp_m/server.py: the tool next_weekday.  A date is a record   *)
(* of year, month and day in the proleptic Gregorian calendar of           *)
(* datetime.date, whose last day is 9999-12-31.                            *)
(***************************************************************************)
DecimalDigits == <<"0", "1", "2", "3", "4", "5", "6", "7", "8", "9">>

\* n in four and in two decimal digits, zero-padded
Decimal4(n) ==
    << DecimalDigits[((n \div 1000) % 10) + 1], DecimalDigits[((n \div 100) % 10) + 1],
       DecimalDigits[((n \div 10) % 10) + 1], DecimalDigits[(n % 10) + 1] >>
Decimal2(n) == << DecimalDigits[((n \div 10) % 10) + 1], DecimalDigits[(n % 10) + 1] >>

Date(y, m, d) == [year |-> y, month |-> m, day |-> d]
DateMax == Date(9999, 12, 31)

IsLeap(y) == (y % 4) = 0 /\ ((y % 100) # 0 \/ (y % 400) = 0)
DaysInMonth(y, m) ==
    IF m = 2 THEN (IF IsLeap(y) THEN 29 ELSE 28)
    ELSE IF m \in {4, 6, 9, 11} THEN 30 ELSE 31

RECURSIVE DaysBeforeMonth(_, _)
DaysBeforeMonth(y, m) == IF m = 1 THEN 0 ELSE DaysBeforeMonth(y, m - 1) + DaysInMonth(y, m - 1)

DaysBeforeYear(y) == (y - 1) * 365 + (y - 1) \div 4 - (y - 1) \div 100 + (y - 1) \div 400

\* date.toordinal(): 0001-01-01 is day 1; date.weekday(): Monday is 0
toordinal(d) == DaysBeforeYear(d.year) + DaysBeforeMonth(d.year, d.month) + d.day
weekday(d) == (toordinal(d) + 6) % 7

\* date.isoformat()
isoformat(d) == Decimal4(d.year) \o <<"-">> \o Decimal2(d.month) \o <<"-">> \o Decimal2(d.day)

\* datetime.fromisoformat(s).date() for a text s of the form YYYY-MM-DD
fromisoformat(s) ==
    IF /\ Len(s) = 10
       /\ s[5] = "-" /\ s[8] = "-"
       /\ \A i \in {1, 2, 3, 4, 6, 7, 9, 10} : s[i] \in Digits
       /\ DecimalValue(SubSeq(s, 1, 4)) >= 1
       /\ DecimalValue(SubSeq(s, 6, 7)) \in 1..12
       /\ DecimalValue(SubSeq(s, 9, 10)) \in
              1..DaysInMonth(DecimalValue(SubSeq(s, 1, 4)), DecimalValue(SubSeq(s, 6, 7)))
    THEN Return(Date(DecimalValue(SubSeq(s, 1, 4)), DecimalValue(SubSeq(s, 6, 7)),
                     DecimalValue(SubSeq(s, 9, 10))))
    ELSE Raise("ValueError")

\* d + timedelta(days=1), and d + timedelta(days=n) for n >= 0 within the calendar
Tomorrow(d) ==
    IF d.day < DaysInMonth(d.year, d.month) THEN Date(d.year, d.month, d.day + 1)
    ELSE IF d.month < 12 THEN Date(d.year, d.month + 1, 1)
    ELSE Date(d.year + 1, 1, 1)

RECURSIVE PlusDays(_, _)
PlusDays(d, n) == IF n = 0 THEN d ELSE PlusDays(Tomorrow(d), n - 1)

\* d + timedelta(days=n)
DatePlus(d, n) ==
    IF toordinal(d) + n > toordinal(DateMax) THEN Raise("OverflowError")
    ELSE Return(PlusDays(d, n))

weekdays ==
    << <<"M", "o", "n", "d", "a", "y">>,
       <<"T", "u", "e", "s", "d", "a", "y">>,
       <<"W", "e", "d", "n", "e", "s", "d", "a", "y">>,
       <<"T", "h", "u", "r", "s", "d", "a", "y">>,
       <<"F", "r", "i", "d", "a", "y">>,
       <<"S", "a", "t", "u", "r", "d", "a", "y">>,
       <<"S", "u", "n", "d", "a", "y">> >>

InvalidWeekdayPrefix == <<"I", "n", "v", "a", "l", "i", "d", " ", "w", "e", "e", "k", "d", "a", "y", ":", " ">>
InvalidWeekdaySuffix ==
    <<".", " ", "M", "u", "s", "t", " ", "b", "e", " ", "o", "n", "e", " ", "o", "f", " ", "[",
    "'", "M", "o", "n", "d", "a", "y", "'", ",", " ", "'", "T", "u", "e", "s", "d", "a", "y",
    "'", ",", " ", "'", "W", "e", "d", "n", "e", "s", "d", "a", "y", "'", ",", " ", "'", "T",
    "h", "u", "r", "s", "d", "a", "y", "'", ",", " ", "'", "F", "r", "i", "d", "a", "y", "'",
    ",", " ", "'", "S", "a", "t", "u", "r", "d", "a", "y", "'", ",", " ", "'", "S", "u", "n",
    "d", "a", "y", "'", "]">>

NextDateKey == <<"n", "e", "x", "t", "_", "d", "a", "t", "e">>
ErrorKey == <<"e", "r", "r", "o", "r">>

\* weekdays.index(name)
WeekdayIndex(name) == (CHOOSE i \in 1..Len(weekdays) : weekdays[i] = name) - 1

\* days_ahead = (target_index - d.weekday() + 7) % 7, made 7 when it is 0
DaysAhead(target_index, d) ==
    IF ((target_index - weekday(d) + 7) % 7) = 0 THEN 7 ELSE (target_index - weekday(d) + 7) % 7

NextDate(shifted) ==
    IF shifted.raised THEN shifted
    ELSE Return(PyDict(<< [k |-> NextDateKey, val |-> PyStr(isoformat(shifted.val))] >>))

FromReference(d, weekday_name) ==
    IF d.raised THEN d
    ELSE IF \A i \in 1..Len(weekdays) : weekdays[i] # weekday_name
    THEN Return(PyDict(<< [k |-> ErrorKey,
                          val |-> PyStr(InvalidWeekdayPrefix \o weekday_name \o InvalidWeekdaySuffix)] >>))
    ELSE NextDate(DatePlus(d.val, DaysAhead(WeekdayIndex(weekday_name), d.val)))

\* a variant without the step that makes 0 days ahead 7
NextWeekdayOrSame(reference_date, weekday_name) ==
    IF \A i \in 1..Len(weekdays) : weekdays[i] # weekday_name
    THEN FromReference(fromisoformat(reference_date), weekday_name)
    ELSE NextDate(DatePlus(fromisoformat(reference_date).val,
                           (WeekdayIndex(weekday_name) - weekday(fromisoformat(reference_date).val) + 7) % 7))

\* next_weekday(reference_date, weekday_name) for two texts
next_weekday(reference_date, weekday_name) ==
    FromReference(fromisoformat(reference_date), weekday_name)

ReferenceDates ==
    {Date(y, m, d) : y \in {2023, 2024, 2100, 9999}, m \in {1, 2, 3, 12}, d \in 1..31}

WeekdayInputs ==
    {weekdays[i] : i \in 1..Len(weekdays)} \cup {<<>>, <<"M", "o", "n">>, <<"m", "o", "n", "d", "a", "y">>}

InitWeekday ==
    /\ NoRun
    /\ NoLoop
    /\ NoHost
    /\ \E d \in ReferenceDates, name \in WeekdayInputs :
           /\ d.day <= DaysInMonth(d.year, d.month)
           /\ arg = [reference_date |-> isoformat(d), weekday_name |-> name]
    /\ ret = Return(None)
    /\ phase = "ready"
    /\ agent = ""
    /\ reply = Return(None)

\* the tool is invoked: next_weekday(**payload)
NextWeekday ==
    /\ phase = "ready"
    /\ ret' = next_weekday(arg.reference_date, arg.weekday_name)
    /\ phase' = "returned"
    /\ UNCHANGED <<arg, agent, reply, runVars, loopVars, hostVars>>

NextTool == NextWeekday

SpecWeekday == InitWeekday /\ [][NextTool]_vars

\* the reference date and the requested weekday of the call, and the date returned
Reference == fromisoformat(arg.reference_date).val
NamesWeekday == \E i \in 1..Len(weekdays) : weekdays[i] = arg.weekday_name
Found == fromisoformat(DictGet(ret.val.v, NextDateKey, None).v).val

\* the tool returned {"next_date": date}, the date being the first day after
\* the reference date that falls on the requested weekday
ReturnsNext ==
    /\ ~ret.raised
    /\ ret.val.t = "dict"
    /\ HasKey(ret.val.v, NextDateKey)
    /\ ~fromisoformat(DictGet(ret.val.v, NextDateKey, None).v).raised
    /\ toordinal(Found) > toordinal(Reference)
    /\ toordinal(Found) <= toordinal(Reference) + 7
    /\ weekday(Found) = WeekdayIndex(arg.weekday_name)
    /\ weekday(Reference) = WeekdayIndex(arg.weekday_name) => toordinal(Found) = toordinal(Reference) + 7

ReturnsError == ~ret.raised /\ ret.val.t = "dict" /\ HasKey(ret.val.v, ErrorKey)

\* no day after the reference date, up to 9999-12-31, falls on the requested weekday
PastCalendar ==
    \A n \in 1..7 :
        toordinal(Reference) + n <= toordinal(DateMax) =>
            (toordinal(Reference) + n + 6) % 7 # WeekdayIndex(arg.weekday_name)

\* C29 (as claimed): for every valid reference date and every name Monday to
\* Sunday next_weekday returns a date after the reference date, at most 7
\* days later, on the requested weekday, 7 days later when the reference date is
\* on that weekday; for any other name it returns an error value, not raising
C29_NextWeekday ==
    phase = "returned" =>
        /\ NamesWeekday => ReturnsNext
        /\ ~NamesWeekday => ReturnsError

\* C29 (amended): the same, for the reference dates that have such a day in
\* the calendar, which ends on 9999-12-31; for the others, all of them in the
\* last week of the year 9999, next_weekday raises OverflowError
C29_NextWeekdayInCalendar ==
    phase = "returned" =>
        /\ (NamesWeekday /\ ~PastCalendar) => ReturnsNext
        /\ (NamesWeekday /\ PastCalendar) =>
               (ret.raised /\ ret.exc = "OverflowError"
                /\ Reference.year = DateMax.year /\ Reference.month = 12 /\ Reference.day >= 25)
        /\ ~NamesWeekday => ReturnsError

\* the reference date, the last day of a leap February, fell on the requested
\* weekday, and the date returned is a week later, in March
C29_Witness ==
    /\ phase = "returned"
    /\ NamesWeekday
    /\ Reference.month = 2 /\ Reference.day = 29
    /\ weekday(Reference) = WeekdayIndex(arg.weekday_name)
    /\ ReturnsNext
    /\ Found = Date(Reference.year, 3, 7)

(***************************************************************************)
(* src/6_mcp/mcp_m/host_wrapper.py: main.  The server subprocess runs      *)
(* until it exits of its own accord or is signalled; nothing makes it exit *)
(* otherwise.                                                              *)
(***************************************************************************)
ClientOutcomes == {Return(PyInt(0)), Return(PyInt(1)), Raise("TimeoutExpired"), Raise("FileNotFoundError")}

InitHost ==
    /\ NoRun
    /\ NoLoop
    /\ arg \in [no_start : BOOLEAN, call : {"None", "current_date", "next_weekday"}]
    /\ ret = Return(None)
    /\ phase = "ready"
    /\ agent = ""
    /\ reply = Return(None)
    /\ main_pc = "start"
    /\ server_proc = "None"
    /\ server = "absent"

\* main leaves its try block with the exception exc
Abort(exc) == ret' = Raise(exc) /\ main_pc' = "finally"

\* server_proc = start_server(): server.py is missing, or Popen starts it
StartServer ==
    /\ main_pc = "start"
    /\ ~arg.no_start
    /\ \/ Abort("FileNotFoundError") /\ UNCHANGED <<server_proc, server, log>>
       \/ /\ server_proc' = "Popen"
          /\ server' = "running"
          /\ log' = Append(log, <<"server", "Popen", 0>>)
          /\ main_pc' = "health"
          /\ UNCHANGED ret
    /\ UNCHANGED <<arg, phase, agent, reply, loopVars, runtime, registry, registrations, pc, m_query,
                   m_searches, m_search_results, m_report, m_result, llm_failures>>

\* --no-start: the else branch
SkipStart ==
    /\ main_pc = "start"
    /\ arg.no_start
    /\ main_pc' = "health"
    /\ UNCHANGED <<callVars, runVars, loopVars, server_proc, server>>

\* ok = wait_for_health(...): some server answered 200 at the base URL, or the
\* timeout passed
WaitForHealth ==
    /\ main_pc = "health"
    /\ \E ok \in BOOLEAN :
           IF ok THEN main_pc' = "list" /\ UNCHANGED ret
           ELSE IF server_proc = "Popen" THEN main_pc' = "read_stderr" /\ UNCHANGED ret
           ELSE Abort("RuntimeError")
    /\ UNCHANGED <<arg, phase, agent, reply, runVars, loopVars, server_proc, server>>

\* stderr = server_proc.stderr.read(): returns at the end of the pipe, which
\* comes when the server has exited; then raise RuntimeError
ReadStderr ==
    /\ main_pc = "read_stderr"
    /\ server = "exited"
    /\ Abort("RuntimeError")
    /\ UNCHANGED <<arg, phase, agent, reply, runVars, loopVars, server_proc, server>>

\* tool_to_call = args.call or "current_date"
ToolToCall == IF arg.call = "None" THEN "current_date" ELSE arg.call

\* run_client_command(["list"]) and run_client_command([tool_to_call])
RunClient ==
    /\ main_pc \in {"list", "call"}
    /\ \E out \in ClientOutcomes :
           IF out.raised
           THEN Abort(out.exc) /\ UNCHANGED log
           ELSE /\ log' = Append(log, <<"client", IF main_pc = "list" THEN "list" ELSE ToolToCall, out.val.v>>)
                /\ main_pc' = IF main_pc = "list" THEN "call" ELSE "finally"
                /\ UNCHANGED ret
    /\ UNCHANGED <<arg, phase, agent, reply, loopVars, server_proc, server, runtime, registry,
                   registrations, pc, m_query, m_searches, m_search_results, m_report, m_result,
                   llm_failures>>

\* finally: if server_proc is not None: server_proc.terminate()
Shutdown ==
    /\ main_pc = "finally"
    /\ IF server_proc = "None" THEN main_pc' = "exit" /\ UNCHANGED log
       ELSE main_pc' = "wait" /\ log' = Append(log, <<"server", "terminate", 0>>)
    /\ UNCHANGED <<callVars, loopVars, server_proc, server, runtime, registry, registrations, pc,
                   m_query, m_searches, m_search_results, m_report, m_result, llm_failures>>

\* server_proc.wait(timeout=3.0) returns when the server has exited; when the
\* 3 s pass first it raises and main calls server_proc.kill()
WaitServer ==
    /\ main_pc = "wait"
    /\ IF server = "exited" THEN UNCHANGED <<server, log>>
       ELSE server' = "exited" /\ log' = Append(log, <<"server", "kill", 0>>)
    /\ main_pc' = "exit"
    /\ UNCHANGED <<callVars, loopVars, server_proc, runtime, registry, registrations, pc,
                   m_query, m_searches, m_search_results, m_report, m_result, llm_failures>>

\* the server process ends: it failed, or it was sent SIGTERM
ServerExits ==
    /\ server = "running"
    /\ server' = "exited"
    /\ UNCHANGED <<callVars, runVars, loopVars, main_pc, server_proc>>

MainStep ==
    StartServer \/ SkipStart \/ WaitForHealth \/ ReadStderr \/ RunClient \/ Shutdown \/ WaitServer

NextHost == MainStep \/ ServerExits

SpecHost == InitHost /\ [][NextHost]_vars

\* main is a running process: it takes the step it stands at when that step can
\* be taken; the server is not bound to exit
SpecHostFair == SpecHost /\ WF_vars(MainStep)

\* main has called terminate() or kill() on the subprocess
Stopped == \E i \in 1..Len(log) : log[i][1] = "server" /\ log[i][2] \in {"terminate", "kill"}

\* C30: once main has started the server subprocess, main eventually ends
\* having terminated or killed it, on every path (normal completion, a
\* failing client command, a health check that times out with the server
\* alive); with --no-start main neither starts nor stops a server
C30_ServerStoppedOnEveryExit ==
    /\ [](server_proc = "Popen" => <>(main_pc = "exit" /\ Stopped))
    /\ [](arg.no_start => (server_proc = "None" /\ server = "absent" /\ ~Stopped))

====
